---------------------------- MODULE Spec2Model ----------------------------
(***************************************************************************)
(* Model of the transactional batch engine (crates/fe-batch), the          *)
(* verification pipeline (crates/fe-verify) and the fe_batch tool entry    *)
(* (crates/fe-mcp-server/src/tools/batch.rs).                              *)
(*                                                                         *)
(* A path string is a sequence of one-character strings; a PathBuf is the  *)
(* sequence of its components, each component a character sequence.  The   *)
(* file system is a function from absolute locations to "<absent>",        *)
(* "<dir>" or the content of a regular file.                               *)
(***************************************************************************)
EXTENDS Integers, Sequences, FiniteSets, TLC

\* Largest number of entries (edits plus creates) in one batch request.
MaxEntries == 2

\* Largest number of TextEdits handed to EditSet::new, and the largest byte
\* offset (and source length) they are drawn from.
MaxEdits == 3
MaxOffset == 2

None == "None"
Absent == "<absent>"
Dir == "<dir>"

(***************************************************************************)
(* Paths                                                                   *)
(***************************************************************************)
RootDir == <<"/">>
ParentDir == <<".", ".">>
CurDir == <<".">>

\* The fixed project root handed to every tool call: "/p".
project_root == <<RootDir, <<"p">>>>

\* Where tempfile::tempdir() places the two temporary roots.
StagingRoot == <<RootDir, <<"t">>, <<"s">>>>
BackupRoot == <<RootDir, <<"t">>, <<"k">>>>

\* Request path strings: "a", "./a", "b", "n", "d/n", "d\n" (one component
\* whose name holds a backslash), "/p/a", "/e", "../e".
ReqFiles ==
    { <<"a">>, <<".", "/", "a">>, <<"b">>, <<"n">>, <<"d", "/", "n">>,
      <<"d", "\\", "n">>,
      <<"/", "p", "/", "a">>, <<"/", "e">>, <<".", ".", "/", "e">> }

\* Absolute locations the file system tracks.
Locs ==
    { <<RootDir>>, project_root,
      project_root \o << <<"a">> >>, project_root \o << <<"b">> >>,
      project_root \o << <<"n">> >>, project_root \o << <<"d">> >>,
      project_root \o << <<"d">>, <<"n">> >>,
      project_root \o << <<"d", "\\", "n">> >>,
      <<RootDir, <<"e">>>> }

RECURSIVE SplitAcc(_, _, _)
SplitAcc(s, cur, acc) ==
    IF s = <<>>
    THEN IF cur = <<>> THEN acc ELSE Append(acc, cur)
    ELSE IF Head(s) = "/"
         THEN SplitAcc(Tail(s), <<>>, IF cur = <<>> THEN acc ELSE Append(acc, cur))
         ELSE SplitAcc(Tail(s), Append(cur, Head(s)), acc)

IsAbsolute(s) == s # <<>> /\ s[1] = "/"

\* Path::components of a path that is (or has been joined onto) an absolute
\* path: a leading RootDir, no empty component, no "." (a "." is kept by Rust
\* only at the very start of a relative path).
Components(s) ==
    (IF IsAbsolute(s) THEN <<RootDir>> ELSE <<>>)
        \o SelectSeq(SplitAcc(s, <<>>, <<>>), LAMBDA c : c # CurDir)

\* Path::join: an absolute argument replaces the base.
Join(base, s) == IF IsAbsolute(s) THEN Components(s) ELSE base \o Components(s)

Parent(path) == SubSeq(path, 1, Len(path) - 1)

StartsWith(path, base) ==
    Len(base) <= Len(path) /\ SubSeq(path, 1, Len(base)) = base

RECURSIVE NormalizeAcc(_, _)
NormalizeAcc(comps, acc) ==
    IF comps = <<>> THEN acc
    ELSE LET c == Head(comps) IN
         IF c = ParentDir
         THEN NormalizeAcc(Tail(comps),
                           IF acc = <<>> THEN acc ELSE SubSeq(acc, 1, Len(acc) - 1))
         ELSE IF c = CurDir THEN NormalizeAcc(Tail(comps), acc)
         ELSE NormalizeAcc(Tail(comps), Append(acc, c))

normalize_path(path) == NormalizeAcc(path, <<>>)

\* str::contains("..")
ContainsDotDot(s) == \E k \in 1..(Len(s) - 1) : s[k] = "." /\ s[k + 1] = "."

resolve_within_root(root, relative) ==
    IF ContainsDotDot(relative)
    THEN LET normalized == normalize_path(Join(root, relative)) IN
         IF ~StartsWith(normalized, root)
         THEN [ok |-> FALSE, path |-> normalized]
         ELSE [ok |-> TRUE, path |-> normalized]
    ELSE [ok |-> TRUE, path |-> normalize_path(Join(root, relative))]

\* A faulty key that keeps backslashes as they are.
VerbatimKey(file) == file

\* str::replace('\\', "/")
CanonicalKey(file) == [k \in 1..Len(file) |-> IF file[k] = "\\" THEN "/" ELSE file[k]]

(***************************************************************************)
(* File system primitives                                                  *)
(***************************************************************************)
Exists(f, path) == path \in DOMAIN f /\ f[path] # Absent
IsDir(f, path) == path \in DOMAIN f /\ f[path] = Dir
IsFile(f, path) == Exists(f, path) /\ ~IsDir(f, path)

is_dir_empty(f, path) ==
    IsDir(f, path) /\ \A l \in DOMAIN f : (l # <<>> /\ Len(l) > 1 /\ Parent(l) = path) => f[l] = Absent

\* fs::create_dir_all
RECURSIVE create_dir_all(_, _)
create_dir_all(f, path) ==
    IF path = <<>> \/ path \notin DOMAIN f \/ f[path] # Absent THEN f
    ELSE [create_dir_all(f, Parent(path)) EXCEPT ![path] = Dir]

\* A faulty walk that does not stop at the root.
RECURSIVE remove_empty_ancestors_past_root(_, _, _)
remove_empty_ancestors_past_root(f, dir, root) ==
    IF StartsWith(dir, root) /\ Exists(f, dir) /\ is_dir_empty(f, dir)
    THEN IF Len(dir) > 1
         THEN remove_empty_ancestors_past_root([f EXCEPT ![dir] = Absent], Parent(dir), root)
         ELSE [f EXCEPT ![dir] = Absent]
    ELSE f

RECURSIVE remove_empty_ancestors(_, _, _)
remove_empty_ancestors(f, dir, root) ==
    IF dir # root /\ StartsWith(dir, root) /\ Exists(f, dir) /\ is_dir_empty(f, dir)
    THEN IF Len(dir) > 1
         THEN remove_empty_ancestors([f EXCEPT ![dir] = Absent], Parent(dir), root)
         ELSE [f EXCEPT ![dir] = Absent]
    ELSE f

(***************************************************************************)
(* Input validation (edit_set.rs)                                          *)
(***************************************************************************)
validate_edit(root, f, edit, seen) ==
    IF edit.content # None /\ edit.operations # None
    THEN [ok |-> FALSE, error |-> [kind |-> "AmbiguousEdit", path |-> edit.file]]
    ELSE IF edit.content = None /\ edit.operations = None
    THEN [ok |-> FALSE, error |-> [kind |-> "EmptyEdit", path |-> edit.file]]
    ELSE LET r == resolve_within_root(root, edit.file) IN
         IF ~r.ok
         THEN [ok |-> FALSE, error |-> [kind |-> "PathTraversal", path |-> edit.file]]
         ELSE IF CanonicalKey(edit.file) \in seen
         THEN [ok |-> FALSE, error |-> [kind |-> "DuplicatePath", path |-> edit.file]]
         ELSE IF ~Exists(f, r.path)
         THEN [ok |-> FALSE, error |-> [kind |-> "FileNotFound", path |-> r.path]]
         ELSE [ok |-> TRUE,
               value |-> [absolute_path |-> r.path,
                          relative_path |-> edit.file,
                          change |-> IF edit.content # None
                                     THEN [kind |-> "FullContent", content |-> edit.content]
                                     ELSE [kind |-> "AstOperations", content |-> None]]]

validate_create(root, f, create, seen) ==
    LET r == resolve_within_root(root, create.file) IN
    IF ~r.ok
    THEN [ok |-> FALSE, error |-> [kind |-> "PathTraversal", path |-> create.file]]
    ELSE IF CanonicalKey(create.file) \in seen
    THEN [ok |-> FALSE, error |-> [kind |-> "DuplicatePath", path |-> create.file]]
    ELSE IF Exists(f, r.path)
    THEN [ok |-> FALSE, error |-> [kind |-> "FileAlreadyExists", path |-> r.path]]
    ELSE [ok |-> TRUE,
          value |-> [absolute_path |-> r.path,
                     relative_path |-> create.file,
                     content |-> create.content]]

RECURSIVE ValidateCreates(_, _, _, _, _, _)
ValidateCreates(root, f, creates, seen, vedits, acc) ==
    IF creates = <<>>
    THEN [ok |-> TRUE, edits |-> vedits, creates |-> acc]
    ELSE LET v == validate_create(root, f, Head(creates), seen) IN
         IF ~v.ok THEN [ok |-> FALSE, error |-> v.error]
         ELSE ValidateCreates(root, f, Tail(creates),
                              seen \cup {CanonicalKey(Head(creates).file)},
                              vedits, Append(acc, v.value))

RECURSIVE ValidateEdits(_, _, _, _, _, _)
ValidateEdits(root, f, edits, creates, seen, acc) ==
    IF edits = <<>>
    THEN ValidateCreates(root, f, creates, seen, acc, <<>>)
    ELSE LET v == validate_edit(root, f, Head(edits), seen) IN
         IF ~v.ok THEN [ok |-> FALSE, error |-> v.error]
         ELSE ValidateEdits(root, f, Tail(edits), creates,
                            seen \cup {CanonicalKey(Head(edits).file)},
                            Append(acc, v.value))

\* input.edits / input.creates hold the list after as_deref().unwrap_or(&[]):
\* an absent list and an empty one are both <<>>.
validate_input(root, f, input) ==
    LET es == input.edits
        cs == input.creates
    IN IF es = <<>> /\ cs = <<>>
       THEN [ok |-> FALSE, error |-> [kind |-> "EmptyTransaction", path |-> <<>>]]
       ELSE ValidateEdits(root, f, es, cs, {}, <<>>)

\* Option<bool>::unwrap_or(true)
verify_enabled(input) == IF input.verify = None THEN TRUE ELSE input.verify = "true"
rollback_on_failure(input) ==
    IF input.rollback_on_failure = None THEN TRUE ELSE input.rollback_on_failure = "true"

(***************************************************************************)
(* Requests                                                                *)
(***************************************************************************)
\* The content the k-th edit / create of a request carries.
EditContents == <<"new_content_1", "new_content_2", "new_content_3", "new_content_4">>
CreateContents == <<"created_1", "created_2", "created_3", "created_4">>

\* Option<bool>: absent (the default applies) or an explicit false.
OptBool == {None, "false"}

\* EditOperation { file, content: Option<String>, operations: Option<Vec<_>> }
EditSeqs(k) ==
    { [j \in 1..k |-> [file |-> ff[j],
                       content |-> IF hc[j] THEN EditContents[j] ELSE None,
                       operations |-> IF ho[j] THEN "ops" ELSE None]] :
        ff \in [1..k -> ReqFiles], hc \in [1..k -> BOOLEAN], ho \in [1..k -> BOOLEAN] }

\* Edit lists in which every edit carries exactly one of content and operations.
WellFormedEditSeqs(k) ==
    { [j \in 1..k |-> [file |-> ff[j],
                       content |-> IF hc[j] THEN EditContents[j] ELSE None,
                       operations |-> IF hc[j] THEN None ELSE "ops"]] :
        ff \in [1..k -> ReqFiles], hc \in [1..k -> BOOLEAN] }

\* CreateOperation { file, content }
CreateSeqs(m) ==
    { [j \in 1..m |-> [file |-> ff[j], content |-> CreateContents[j]]] :
        ff \in [1..m -> ReqFiles] }

(***************************************************************************)
(* Verification (fe-verify)                                                *)
(***************************************************************************)
\* What a runner's process gives: the spawn fails, or it prints stdout that
\* decodes to no error, decodes to at least one error, or does not decode.
RunnerOutcomes == {"spawn_error", "clean", "errors", "garbage"}

\* StepResult / TestStepResult: the status and the diagnostics (failures).
Step(status, errors) == [status |-> status, errors |-> errors]

\* A JSON decode error gives status fail and one synthetic diagnostic.
parse_eslint_output(stdout) ==
    IF stdout = "garbage" THEN Step("fail", <<"Failed to parse ESLint JSON output">>)
    ELSE IF stdout = "errors" THEN Step("fail", <<"lint error">>)
    ELSE Step("pass", <<>>)

\* Lines that do not match the tsc pattern are skipped.
parse_tsc_output(stdout) ==
    IF stdout = "errors" THEN Step("fail", <<"type error">>) ELSE Step("pass", <<>>)

\* parse_jest_output and parse_vitest_output decide the status the same way.
parse_jest_output(stdout) ==
    IF stdout = "garbage" THEN Step("fail", <<"<parse error>">>)
    ELSE IF stdout = "errors" THEN Step("fail", <<"test failure">>)
    ELSE Step("pass", <<>>)

\* StepResult::skipped(reason)
SkippedLint == Step("skipped: Skipped due to lint errors", <<>>)
SkippedTypes == Step("skipped: Skipped due to type errors", <<>>)
Suggestion == "Call fe_doctor with the errors above for structured fix suggestions"

\* VerificationSummary::default(): every step is StepResult::default()
DefaultSummary ==
    [status |-> "", lint |-> Step("skipped", <<>>), types |-> Step("skipped", <<>>),
     tests |-> Step("skipped", <<>>), suggestion |-> None]

\* A faulty is_passing that overlooks the tests step.
is_passing_ignoring_tests(s) ==
    s.lint.status # "fail" /\ s.types.status # "fail"

is_passing(s) ==
    s.lint.status # "fail" /\ s.types.status # "fail" /\ s.tests.status # "fail"

\* A faulty finalize that leaves the summary as it is.
finalize_left_out(s) == s

finalize(s) ==
    IF is_passing(s) THEN [s EXCEPT !.status = "pass"]
    ELSE [s EXCEPT !.status = "fail", !.suggestion = Suggestion]

(***************************************************************************)
(* State                                                                   *)
(***************************************************************************)
VARIABLES
    fs,                  \* the file system
    pre,                 \* the file system when the call began
    pipeline,            \* BatchTool.pipeline: which runners were detected
    pc,                  \* position inside BatchTool::call
    st,                  \* typestate of the Transaction value
    edits, creates,      \* Transaction.edits / .creates
    verify, rollback_flag, \* Transaction.verify / .rollback_on_failure
    staging,             \* StagingArea.staged_files
    stagingDir,          \* whether StagingArea.temp_dir exists on disk
    backups,             \* FileBackupSet { backups, created_files }
    backupDir,           \* whether FileBackupSet.backup_dir exists on disk
    i,                   \* index of the loop the call is in
    caller,              \* who invoked restore_all: "apply" or "rollback"
    apply_error,         \* the write error apply holds while it restores
    restore_result,      \* what restore_all returned
    summary,             \* the VerificationSummary being built
    run_result,          \* Ok / Err of VerificationPipeline::run
    invoked,             \* the runners VerificationPipeline::run has invoked, in order
    result,              \* the ToolCallResult returned to the caller
    batch_input,         \* ValidationSpec: the BatchInput handed to validate_input
    validated,           \* ValidationSpec: what validate_input returned
    text_edits,          \* EditSetSpec: the Vec<TextEdit> handed to EditSet::new
    source_len,          \* EditSetSpec: the source length handed to EditSet::new
    edit_set,            \* EditSetSpec: what EditSet::new returned
    source,              \* ApplySpec, ExecSpec: the source text, a sequence of bytes
    applied,             \* ApplySpec: what EditSet::apply returned
    operations,          \* ExecSpec: the operation list handed to execute_operations
    outcome,             \* ExecSpec: what execute_operations returned
    params,              \* SurgeonSpec: the SurgeonParams of the call
    disk,                \* SurgeonSpec: the files the surgeon entry reads and writes
    pending,             \* SurgeonSpec: the entries of ops_by_file not yet processed
    surgeon_result,      \* SurgeonSpec: the SurgeonResult being built
    cleanup,             \* CleanupSpec: the created path one restore step handles
    wasm,                \* SurgeonSpec: request and response of a WASM entry point
    calls                \* ConcurrentSpec: the schedule and the two calls on one project

vars == <<fs, pre, pipeline, pc, st, edits, creates, verify, rollback_flag, staging,
          stagingDir, backups, backupDir, i, caller, apply_error, restore_result,
          summary, run_result, invoked, result, batch_input, validated,
          text_edits, source_len, edit_set, source, applied, operations, outcome,
          params, disk, pending, surgeon_result, cleanup, wasm, calls>>

\* The variables of the specifications of the pure functions; the batch call
\* leaves them alone.
pureVars == <<batch_input, validated, text_edits, source_len, edit_set, source, applied,
              operations, outcome, params, disk, pending, surgeon_result, cleanup, wasm,
              calls>>

NoError == [kind |-> "none", path |-> <<>>]
NoResult ==
    [is_error |-> FALSE, message |-> None, error |-> NoError, status |-> None,
     files_modified |-> <<>>, files_created |-> <<>>, has_verification |-> FALSE,
     verification |-> DefaultSummary, rolled_back |-> FALSE]
EmptyBackups == [backups |-> <<>>, created_files |-> <<>>]

\* Result<(), BatchError> of restore_all
RestoreNone == [kind |-> "none", error |-> NoError]
RestoreOk == [kind |-> "Ok", error |-> NoError]
RestoreErr(path) == [kind |-> "Err", error |-> [kind |-> "RollbackError", path |-> path]]

\* ToolCallResult::error(format!("{prefix}: {e}"))
ErrorResult(prefix, e) == [NoResult EXCEPT !.is_error = TRUE, !.message = prefix, !.error = e]

RelPaths(list) == [k \in 1..Len(list) |-> list[k].relative_path]

\* Transaction<Committed>::into_result
into_result(es, cs, hasV, v) ==
    [NoResult EXCEPT !.status = "success", !.files_modified = RelPaths(es),
                     !.files_created = RelPaths(cs), !.has_verification = hasV,
                     !.verification = v]

\* Transaction<Committed>::into_result_with_warnings
into_result_with_warnings(es, cs, hasV, v) ==
    [NoResult EXCEPT !.status = "verification_failed", !.files_modified = RelPaths(es),
                     !.files_created = RelPaths(cs), !.has_verification = hasV,
                     !.verification = v]

\* Transaction<RolledBack>::into_result
rolled_back_result(hasV, v) ==
    [NoResult EXCEPT !.status = "rolled_back", !.has_verification = hasV,
                     !.verification = v, !.rolled_back = TRUE]

InitFs(dExists) ==
    [l \in Locs |->
        IF l = <<RootDir>> \/ l = project_root THEN Dir
        ELSE IF l = project_root \o << <<"a">> >> THEN "original_a"
        ELSE IF l = project_root \o << <<"b">> >> THEN "original_b"
        ELSE IF l = <<RootDir, <<"e">>>> THEN "original_e"
        ELSE IF l = project_root \o << <<"d">> >> /\ dExists THEN Dir
        ELSE Absent]

\* The locals of a call that has not started and an empty Transaction.
CallIdle ==
    /\ pre = fs
    /\ pc = "idle"
    /\ st = "None"
    /\ edits = <<>>
    /\ creates = <<>>
    /\ verify = TRUE
    /\ rollback_flag = TRUE
    /\ staging = <<>>
    /\ stagingDir = FALSE
    /\ backups = EmptyBackups
    /\ backupDir = FALSE
    /\ i = 0
    /\ caller = "none"
    /\ apply_error = NoError
    /\ restore_result = RestoreNone
    /\ summary = DefaultSummary
    /\ run_result = "none"
    /\ invoked = <<>>
    /\ result = NoResult

\* validate_input has not been applied.
NotValidated == [done |-> FALSE]

\* EditSet::new has not been applied, and has nothing to be applied to.
NotBuilt == [done |-> FALSE]
NoEditSetInput ==
    /\ text_edits = <<>>
    /\ source_len = 0
    /\ edit_set = NotBuilt

\* EditSet::apply has not been applied.
NotApplied == [done |-> FALSE]

\* execute_operations has not been called, and has nothing to be called with.
NotExecuted == [done |-> FALSE]
NoExecInput ==
    /\ source = <<>>
    /\ applied = NotApplied
    /\ operations = <<>>
    /\ outcome = NotExecuted

\* No call of the surgeon entry is in progress.
NoParams == [received |-> FALSE]
NoSurgeonResult == [started |-> FALSE]
NotProcessed == [done |-> FALSE]
NoSurgeonCall ==
    /\ params = NoParams
    /\ disk = <<>>
    /\ pending = {}
    /\ surgeon_result = NoSurgeonResult
    /\ wasm = NotProcessed

\* No restore step is set up.
NoCleanup == [done |-> FALSE]

\* No pair of calls is set up.
NoCalls == [started |-> FALSE]

\* The variables of the surgeon, of the single restore step and of the pair
\* of calls, at rest.
SurgeonIdle ==
    /\ NoExecInput
    /\ NoSurgeonCall
    /\ cleanup = NoCleanup
    /\ calls = NoCalls

Init ==
    /\ \E dExists \in BOOLEAN : fs = InitFs(dExists)
    /\ pipeline \in [linter : BOOLEAN, type_checker : BOOLEAN, test_runner : BOOLEAN]
    /\ CallIdle
    /\ batch_input = None
    /\ validated = NotValidated
    /\ NoEditSetInput
    /\ SurgeonIdle

(***************************************************************************)
(* I/O primitives of the engine                                            *)
(***************************************************************************)
\* A faulty drop that keeps the backup root on disk (TempDir persisted).
DropKeepsBackupRoot ==
    /\ stagingDir' = FALSE
    /\ UNCHANGED backupDir

\* Dropping the Transaction value drops both TempDirs: the roots are erased.
DropTransaction ==
    /\ stagingDir' = FALSE
    /\ backupDir' = FALSE

\* StagingArea::stage_file: where the staged copy lands.  A relative path lands
\* under the staging root; an absolute one replaces the root in Path::join.
staged_path(relative_path) == normalize_path(Join(StagingRoot, relative_path))

StageOutcomes == {"ok", "fail_mkdir", "fail_open", "fail_write"}

\* The effect of stage_file on the tracked file system for each outcome:
\* create_dir_all(parent), File::create (truncates), write_all.
stage_file_fs(f, relative_path, content, o) ==
    LET target == staged_path(relative_path) IN
    IF target \notin DOMAIN f \/ o = "fail_mkdir" THEN f
    ELSE LET f1 == create_dir_all(f, Parent(target)) IN
         IF o = "fail_open" THEN f1
         ELSE IF o = "fail_write" THEN [f1 EXCEPT ![target] = ""]
         ELSE [f1 EXCEPT ![target] = content]

\* File::create cannot open a directory.
StageCanSucceed(f, relative_path) ==
    LET target == staged_path(relative_path) IN
    target \in DOMAIN f => ~IsDir(f, target)

\* StagingArea::read_staged: the first staged file with that relative path.
read_staged(staged, relative_path) ==
    LET hits == SelectSeq(staged, LAMBDA sf : sf.relative_path = relative_path) IN
    IF hits = <<>> THEN [found |-> FALSE, content |-> None]
    ELSE [found |-> TRUE, content |-> hits[1].content]

WriteOutcomes == {"ok", "fail_mkdir", "fail_write"}

\* Whether the temp file can be created beside the target and renamed onto it.
WriteCanSucceed(f, target) ==
    /\ target \in DOMAIN f
    /\ ~IsDir(f, target)
    /\ IsDir(create_dir_all(f, Parent(target)), Parent(target))

\* atomic_write: create the parent if it is missing, write a temp file in it,
\* sync, rename onto the target.
atomic_write(f, target, content, o) ==
    LET parent == Parent(target) IN
    IF ~Exists(f, parent) /\ o = "fail_mkdir"
    THEN [ok |-> FALSE, fs |-> f, error |-> [kind |-> "MkdirError", path |-> parent]]
    ELSE LET f1 == IF ~Exists(f, parent) THEN create_dir_all(f, parent) ELSE f IN
         IF o = "ok" /\ WriteCanSucceed(f, target)
         THEN [ok |-> TRUE, fs |-> [f1 EXCEPT ![target] = content], error |-> NoError]
         ELSE [ok |-> FALSE, fs |-> f1, error |-> [kind |-> "WriteError", path |-> target]]

\* atomic_create: refuse an existing target, else atomic_write.
atomic_create(f, target, content, o) ==
    IF Exists(f, target)
    THEN [ok |-> FALSE, fs |-> f, error |-> [kind |-> "FileAlreadyExists", path |-> target]]
    ELSE atomic_write(f, target, content, o)

\* A faulty restore_all entry that copies the backups back first and never
\* reaches the created files when a backup exists.
RestoreEntryBackupsFirst(b) ==
    IF b.backups # <<>> THEN [pc |-> "restore_backups", i |-> Len(b.backups), res |-> RestoreNone]
    ELSE IF b.created_files # <<>> THEN [pc |-> "restore_created", i |-> Len(b.created_files), res |-> RestoreNone]
    ELSE [pc |-> "restore_return", i |-> 0, res |-> RestoreOk]

\* Where restore_all starts: the created files (last first), else the backups
\* (last first), else it returns Ok at once.
RestoreEntry(b) ==
    IF b.created_files # <<>> THEN [pc |-> "restore_created", i |-> Len(b.created_files), res |-> RestoreNone]
    ELSE IF b.backups # <<>> THEN [pc |-> "restore_backups", i |-> Len(b.backups), res |-> RestoreNone]
    ELSE [pc |-> "restore_return", i |-> 0, res |-> RestoreOk]

(***************************************************************************)
(* BatchTool::call, Transaction::new                                       *)
(***************************************************************************)
Call(input) ==
    /\ pc = "idle"
    /\ pre' = fs
    /\ LET v == validate_input(project_root, fs, input) IN
       IF v.ok
       THEN /\ st' = "Pending"
            /\ edits' = v.edits
            /\ creates' = v.creates
            /\ verify' = verify_enabled(input)
            /\ rollback_flag' = rollback_on_failure(input)
            /\ pc' = "stage_new"
            /\ result' = result
       ELSE /\ result' = ErrorResult("Validation failed", v.error)
            /\ pc' = "done"
            /\ UNCHANGED <<st, edits, creates, verify, rollback_flag>>
    /\ UNCHANGED <<fs, pipeline, staging, stagingDir, backups, backupDir, i, caller,
                   apply_error, restore_result, summary, run_result, invoked, pureVars>>

\* The numbers of edits and creates of a request.
EntryCounts == { km \in (0..MaxEntries) \X (0..MaxEntries) : km[1] + km[2] <= MaxEntries }

\* A request arrives.  An edit with both or neither of content and operations
\* is sent as a request of its own (validation refuses it wherever it stands,
\* which ValidationSpec checks for every request).
Receive ==
    /\ pc = "idle"
    /\ \E km \in EntryCounts :
          \E es \in (IF km[1] + km[2] = 1 THEN EditSeqs(km[1]) ELSE WellFormedEditSeqs(km[1])),
             cs \in CreateSeqs(km[2]), v \in OptBool, r \in OptBool :
              Call([edits |-> es, creates |-> cs, verify |-> v, rollback_on_failure |-> r])

(***************************************************************************)
(* Transaction<Pending>::stage                                             *)
(***************************************************************************)
\* StagingArea::new
StageNew ==
    /\ pc = "stage_new"
    /\ \E ok \in BOOLEAN :
          IF ok
          THEN /\ stagingDir' = TRUE
               /\ staging' = <<>>
               /\ i' = 1
               /\ pc' = "stage_files"
               /\ result' = result
          ELSE /\ result' = ErrorResult("Staging failed", [kind |-> "StagingError", path |-> <<>>])
               /\ pc' = "done"
               /\ UNCHANGED <<stagingDir, staging, i>>
    /\ UNCHANGED <<fs, pre, pipeline, st, edits, creates, verify, rollback_flag, backups,
                   backupDir, caller, apply_error, restore_result, summary, run_result, invoked, pureVars>>

\* The two loops of stage: the edits, then the creates.
StageFile ==
    /\ pc = "stage_files"
    /\ i <= Len(edits) + Len(creates)
    /\ LET isEdit == i <= Len(edits)
           rel == IF isEdit THEN edits[i].relative_path ELSE creates[i - Len(edits)].relative_path
           content == IF isEdit THEN edits[i].change.content ELSE creates[i - Len(edits)].content
       IN IF isEdit /\ edits[i].change.kind = "AstOperations"
          THEN /\ result' = ErrorResult("Staging failed", [kind |-> "Internal", path |-> rel])
               /\ pc' = "done"
               /\ DropTransaction
               /\ UNCHANGED <<fs, staging, i>>
          ELSE \E o \in StageOutcomes :
                  /\ o \in {"ok", "fail_write"} => StageCanSucceed(fs, rel)
                  /\ fs' = stage_file_fs(fs, rel, content, o)
                  /\ IF o = "ok"
                     THEN /\ staging' = Append(staging, [relative_path |-> rel,
                                                         is_new |-> ~isEdit,
                                                         content |-> content])
                          /\ i' = i + 1
                          /\ UNCHANGED <<pc, result, stagingDir, backupDir>>
                     ELSE /\ result' = ErrorResult("Staging failed",
                                                   [kind |-> "StagingError", path |-> rel])
                          /\ pc' = "done"
                          /\ DropTransaction
                          /\ UNCHANGED <<staging, i>>
    /\ UNCHANGED <<pre, pipeline, st, edits, creates, verify, rollback_flag, backups,
                   caller, apply_error, restore_result, summary, run_result, invoked, pureVars>>

\* Ok(Transaction { staging: Some(staging), .. })
StageReturn ==
    /\ pc = "stage_files"
    /\ i > Len(edits) + Len(creates)
    /\ st' = "Staged"
    /\ pc' = "apply_new"
    /\ UNCHANGED <<fs, pre, pipeline, edits, creates, verify, rollback_flag, staging,
                   stagingDir, backups, backupDir, i, caller, apply_error, restore_result,
                   summary, run_result, invoked, pureVars, result>>

(***************************************************************************)
(* Transaction<Staged>::apply                                              *)
(***************************************************************************)
\* apply returns Err(e) to the call, which returns "Apply failed: e"; the
\* Transaction and the local FileBackupSet are dropped.
ApplyFails(e) ==
    /\ result' = ErrorResult("Apply failed", e)
    /\ pc' = "done"
    /\ DropTransaction

\* FileBackupSet::new
ApplyNew ==
    /\ pc = "apply_new"
    /\ \E ok \in BOOLEAN :
          IF ok
          THEN /\ backupDir' = TRUE
               /\ backups' = EmptyBackups
               /\ i' = 1
               /\ pc' = IF edits # <<>> THEN "apply_backup" ELSE "apply_create"
               /\ UNCHANGED <<result, stagingDir>>
          ELSE /\ ApplyFails([kind |-> "BackupError", path |-> project_root])
               /\ UNCHANGED <<backups, i>>
    /\ UNCHANGED <<fs, pre, pipeline, st, edits, creates, verify, rollback_flag, staging,
                   caller, apply_error, restore_result, summary, run_result, invoked, pureVars>>

\* First loop: backups.backup_file(&edit.absolute_path)?
ApplyBackup ==
    /\ pc = "apply_backup"
    /\ LET path == edits[i].absolute_path IN
       \E ok \in BOOLEAN :
          /\ ok => IsFile(fs, path)
          /\ IF ok
             THEN /\ backups' = [backups EXCEPT !.backups =
                                    Append(@, [original_path |-> path,
                                               backup_name |-> Len(backups.backups),
                                               content |-> fs[path]])]
                  /\ i' = IF i = Len(edits) THEN 1 ELSE i + 1
                  /\ pc' = IF i = Len(edits) THEN "apply_write" ELSE "apply_backup"
                  /\ UNCHANGED <<result, stagingDir, backupDir>>
             ELSE /\ ApplyFails([kind |-> "BackupError", path |-> path])
                  /\ UNCHANGED <<backups, i>>
    /\ UNCHANGED <<fs, pre, pipeline, st, edits, creates, verify, rollback_flag, staging,
                   caller, apply_error, restore_result, summary, run_result, invoked, pureVars>>

\* Second loop: atomic_write of each edit; a failure starts restore_all.
ApplyWrite ==
    /\ pc = "apply_write"
    /\ LET staged == read_staged(staging, edits[i].relative_path) IN
       IF ~staged.found
       THEN /\ ApplyFails([kind |-> "Internal", path |-> edits[i].relative_path])
            /\ UNCHANGED <<fs, i, caller, apply_error, restore_result>>
       ELSE \E o \in WriteOutcomes :
               LET w == atomic_write(fs, edits[i].absolute_path, staged.content, o) IN
               /\ fs' = w.fs
               /\ IF w.ok
                  THEN /\ i' = IF i = Len(edits) THEN 1 ELSE i + 1
                       /\ pc' = IF i < Len(edits) THEN "apply_write"
                                ELSE IF creates # <<>> THEN "apply_create"
                                ELSE "apply_return"
                       /\ UNCHANGED <<caller, apply_error, restore_result>>
                  ELSE /\ apply_error' = w.error
                       /\ caller' = "apply"
                       /\ pc' = RestoreEntry(backups).pc
                       /\ i' = RestoreEntry(backups).i
                       /\ restore_result' = RestoreEntry(backups).res
               /\ UNCHANGED <<result, stagingDir, backupDir>>
    /\ UNCHANGED <<pre, pipeline, st, edits, creates, verify, rollback_flag, staging,
                   backups, summary, run_result, invoked, pureVars>>

\* Third loop: atomic_create of each create, then record_creation.
ApplyCreate ==
    /\ pc = "apply_create"
    /\ LET staged == read_staged(staging, creates[i].relative_path) IN
       IF ~staged.found
       THEN /\ ApplyFails([kind |-> "Internal", path |-> creates[i].relative_path])
            /\ UNCHANGED <<fs, i, caller, apply_error, restore_result, backups>>
       ELSE \E o \in WriteOutcomes :
               LET w == atomic_create(fs, creates[i].absolute_path, staged.content, o) IN
               /\ fs' = w.fs
               /\ IF w.ok
                  THEN /\ backups' = [backups EXCEPT !.created_files =
                                         Append(@, creates[i].absolute_path)]
                       /\ i' = i + 1
                       /\ pc' = IF i < Len(creates) THEN "apply_create" ELSE "apply_return"
                       /\ UNCHANGED <<caller, apply_error, restore_result>>
                  ELSE /\ apply_error' = w.error
                       /\ caller' = "apply"
                       /\ pc' = RestoreEntry(backups).pc
                       /\ i' = RestoreEntry(backups).i
                       /\ restore_result' = RestoreEntry(backups).res
                       /\ UNCHANGED backups
               /\ UNCHANGED <<result, stagingDir, backupDir>>
    /\ UNCHANGED <<pre, pipeline, st, edits, creates, verify, rollback_flag, staging,
                   summary, run_result, invoked, pureVars>>

\* Ok(Transaction { backups: Some(backups), .. })
ApplyReturn ==
    /\ pc = "apply_return"
    /\ st' = "Applied"
    /\ pc' = "applied"
    /\ UNCHANGED <<fs, pre, pipeline, edits, creates, verify, rollback_flag, staging,
                   stagingDir, backups, backupDir, i, caller, apply_error, restore_result,
                   summary, run_result, invoked, pureVars, result>>

(***************************************************************************)
(* FileBackupSet::restore_all                                              *)
(***************************************************************************)
\* First loop: created files in reverse; remove_file, then the empty ancestors.
RestoreCreated ==
    /\ pc = "restore_created"
    /\ LET path == backups.created_files[i] IN
       \E ok \in BOOLEAN :
          IF ok
          THEN /\ fs' = remove_empty_ancestors(
                            IF Exists(fs, path) THEN [fs EXCEPT ![path] = Absent] ELSE fs,
                            Parent(path), project_root)
               /\ IF i > 1
                  THEN /\ i' = i - 1
                       /\ UNCHANGED <<pc, restore_result>>
                  ELSE IF backups.backups # <<>>
                  THEN /\ i' = Len(backups.backups)
                       /\ pc' = "restore_backups"
                       /\ UNCHANGED restore_result
                  ELSE /\ i' = 0
                       /\ pc' = "restore_return"
                       /\ restore_result' = RestoreOk
          ELSE /\ Exists(fs, path)
               /\ restore_result' = RestoreErr(path)
               /\ pc' = "restore_return"
               /\ UNCHANGED <<fs, i>>
    /\ UNCHANGED <<pre, pipeline, st, edits, creates, verify, rollback_flag, staging,
                   stagingDir, backups, backupDir, caller, apply_error, summary,
                   run_result, invoked, pureVars, result>>

\* A faulty second loop that notes a failed copy and goes on with the backups
\* before it.
RestoreBackupKeepsGoing ==
    /\ pc = "restore_backups"
    /\ LET b == backups.backups[i] IN
       \E ok \in BOOLEAN :
          /\ ok => ~IsDir(fs, b.original_path)
          /\ fs' = IF ok THEN [fs EXCEPT ![b.original_path] = b.content] ELSE fs
          /\ i' = i - 1
          /\ pc' = IF i > 1 THEN pc ELSE "restore_return"
          /\ restore_result' =
                IF ~ok THEN RestoreErr(b.original_path)
                ELSE IF i > 1 \/ restore_result.kind = "Err" THEN restore_result
                ELSE RestoreOk
    /\ UNCHANGED <<pre, pipeline, st, edits, creates, verify, rollback_flag, staging,
                   stagingDir, backups, backupDir, caller, apply_error, summary,
                   run_result, invoked, pureVars, result>>

\* Second loop: backups in reverse; fs::copy(backup_path, original_path).
RestoreBackup ==
    /\ pc = "restore_backups"
    /\ LET b == backups.backups[i] IN
       \E ok \in BOOLEAN :
          IF ok
          THEN /\ ~IsDir(fs, b.original_path)
               /\ fs' = [fs EXCEPT ![b.original_path] = b.content]
               /\ IF i > 1
                  THEN /\ i' = i - 1
                       /\ UNCHANGED <<pc, restore_result>>
                  ELSE /\ i' = 0
                       /\ pc' = "restore_return"
                       /\ restore_result' = RestoreOk
          ELSE /\ restore_result' = RestoreErr(b.original_path)
               /\ pc' = "restore_return"
               /\ UNCHANGED <<fs, i>>
    /\ UNCHANGED <<pre, pipeline, st, edits, creates, verify, rollback_flag, staging,
                   stagingDir, backups, backupDir, caller, apply_error, summary,
                   run_result, invoked, pureVars, result>>

\* A faulty apply that, after restoring, returns Ok(Transaction<Applied>) in
\* place of the write error.
ApplyRestoreReturnsOk ==
    /\ pc = "restore_return"
    /\ caller = "apply"
    /\ st' = "Applied"
    /\ pc' = "applied"
    /\ UNCHANGED <<fs, pre, pipeline, edits, creates, verify, rollback_flag, staging,
                   stagingDir, backups, backupDir, i, caller, apply_error, restore_result,
                   summary, run_result, invoked, pureVars, result>>

\* Back in apply: `let _ = backups.restore_all(); return Err(e);`
ApplyRestoreReturn ==
    /\ pc = "restore_return"
    /\ caller = "apply"
    /\ ApplyFails(apply_error)
    /\ UNCHANGED <<fs, pre, pipeline, st, edits, creates, verify, rollback_flag, staging,
                   backups, i, caller, apply_error, restore_result, summary, run_result, invoked, pureVars>>

(***************************************************************************)
(* VerificationPipeline::run                                               *)
(***************************************************************************)
\* A faulty step 1 that records a lint failure and goes on to the type checker.
RunLintNoEarlyReturn ==
    /\ pc = "applied"
    /\ verify
    /\ invoked' = IF pipeline.linter THEN Append(invoked, "lint") ELSE invoked
    /\ IF pipeline.linter
       THEN \E out \in RunnerOutcomes :
              IF out = "spawn_error"
              THEN /\ run_result' = "Err"
                   /\ summary' = DefaultSummary
                   /\ pc' = "verified"
              ELSE /\ summary' = [DefaultSummary EXCEPT !.lint = parse_eslint_output(out)]
                   /\ pc' = "verify_types"
                   /\ UNCHANGED run_result
       ELSE /\ summary' = DefaultSummary
            /\ pc' = "verify_types"
            /\ UNCHANGED run_result
    /\ UNCHANGED <<fs, pre, pipeline, st, edits, creates, verify, rollback_flag, staging,
                   stagingDir, backups, backupDir, i, caller, apply_error, restore_result,
                   result, pureVars>>

\* Step 1: lint.
RunLint ==
    /\ pc = "applied"
    /\ verify
    /\ invoked' = IF pipeline.linter THEN Append(invoked, "lint") ELSE invoked
    /\ IF pipeline.linter
       THEN \E out \in RunnerOutcomes :
              IF out = "spawn_error"
              THEN /\ run_result' = "Err"
                   /\ summary' = DefaultSummary
                   /\ pc' = "verified"
              ELSE LET s1 == [DefaultSummary EXCEPT !.lint = parse_eslint_output(out)] IN
                   IF s1.lint.status = "fail"
                   THEN /\ summary' = finalize([s1 EXCEPT !.types = SkippedLint,
                                                          !.tests = SkippedLint])
                        /\ run_result' = "Ok"
                        /\ pc' = "verified"
                   ELSE /\ summary' = s1
                        /\ pc' = "verify_types"
                        /\ UNCHANGED run_result
       ELSE /\ summary' = DefaultSummary
            /\ pc' = "verify_types"
            /\ UNCHANGED run_result
    /\ UNCHANGED <<fs, pre, pipeline, st, edits, creates, verify, rollback_flag, staging,
                   stagingDir, backups, backupDir, i, caller, apply_error, restore_result,
                   result, pureVars>>

\* Step 2: type check.
RunTypes ==
    /\ pc = "verify_types"
    /\ invoked' = IF pipeline.type_checker THEN Append(invoked, "types") ELSE invoked
    /\ IF pipeline.type_checker
       THEN \E out \in RunnerOutcomes :
              IF out = "spawn_error"
              THEN /\ run_result' = "Err"
                   /\ pc' = "verified"
                   /\ UNCHANGED summary
              ELSE LET s1 == [summary EXCEPT !.types = parse_tsc_output(out)] IN
                   IF s1.types.status = "fail"
                   THEN /\ summary' = finalize([s1 EXCEPT !.tests = SkippedTypes])
                        /\ run_result' = "Ok"
                        /\ pc' = "verified"
                   ELSE /\ summary' = s1
                        /\ pc' = "verify_tests"
                        /\ UNCHANGED run_result
       ELSE /\ pc' = "verify_tests"
            /\ UNCHANGED <<summary, run_result>>
    /\ UNCHANGED <<fs, pre, pipeline, st, edits, creates, verify, rollback_flag, staging,
                   stagingDir, backups, backupDir, i, caller, apply_error, restore_result,
                   result, pureVars>>

\* Step 3: tests, then finalize.
RunTests ==
    /\ pc = "verify_tests"
    /\ invoked' = IF pipeline.test_runner THEN Append(invoked, "tests") ELSE invoked
    /\ IF pipeline.test_runner
       THEN \E out \in RunnerOutcomes :
              IF out = "spawn_error"
              THEN /\ run_result' = "Err"
                   /\ UNCHANGED summary
              ELSE /\ summary' = finalize([summary EXCEPT !.tests = parse_jest_output(out)])
                   /\ run_result' = "Ok"
       ELSE /\ summary' = finalize(summary)
            /\ run_result' = "Ok"
    /\ pc' = "verified"
    /\ UNCHANGED <<fs, pre, pipeline, st, edits, creates, verify, rollback_flag, staging,
                   stagingDir, backups, backupDir, i, caller, apply_error, restore_result,
                   result, pureVars>>

(***************************************************************************)
(* Transaction<Applied>::commit / rollback and the end of BatchTool::call  *)
(***************************************************************************)
\* commit(): backups.discard(), staging dropped; then the result is built.
Commit(res) ==
    /\ st' = "Committed"
    /\ DropTransaction
    /\ result' = res
    /\ pc' = "done"
    /\ UNCHANGED <<fs, pre, pipeline, edits, creates, verify, rollback_flag, staging,
                   backups, i, caller, apply_error, restore_result, summary, run_result, invoked, pureVars>>

\* No verification requested.
CommitUnverified ==
    /\ pc = "applied"
    /\ ~verify
    /\ Commit(into_result(edits, creates, FALSE, DefaultSummary))

\* Ok(summary) and summary.is_passing()
CommitPassing ==
    /\ pc = "verified"
    /\ run_result = "Ok"
    /\ is_passing(summary)
    /\ Commit(into_result(edits, creates, TRUE, summary))

\* Verification failed and no rollback requested.
CommitDespiteFailure ==
    /\ pc = "verified"
    /\ run_result = "Ok"
    /\ ~is_passing(summary)
    /\ ~rollback_flag
    /\ Commit(into_result_with_warnings(edits, creates, TRUE, summary))

\* Err(e): verification errored, commit anyway.
CommitOnVerifyError ==
    /\ pc = "verified"
    /\ run_result = "Err"
    /\ Commit(into_result(edits, creates, FALSE, DefaultSummary))

\* Verification failed and rollback requested: txn.rollback() calls restore_all.
Rollback ==
    /\ pc = "verified"
    /\ run_result = "Ok"
    /\ ~is_passing(summary)
    /\ rollback_flag
    /\ caller' = "rollback"
    /\ pc' = RestoreEntry(backups).pc
    /\ i' = RestoreEntry(backups).i
    /\ restore_result' = RestoreEntry(backups).res
    /\ UNCHANGED <<fs, pre, pipeline, st, edits, creates, verify, rollback_flag, staging,
                   stagingDir, backups, backupDir, apply_error, summary, run_result, invoked, pureVars, result>>

\* Back in rollback(): `backups.restore_all()?` then Ok(Transaction<RolledBack>).
RollbackReturn ==
    /\ pc = "restore_return"
    /\ caller = "rollback"
    /\ IF restore_result.kind = "Ok"
       THEN /\ st' = "RolledBack"
            /\ result' = rolled_back_result(TRUE, summary)
       ELSE /\ result' = ErrorResult("Rollback failed", restore_result.error)
            /\ UNCHANGED st
    /\ DropTransaction
    /\ pc' = "done"
    /\ UNCHANGED <<fs, pre, pipeline, edits, creates, verify, rollback_flag, staging,
                   backups, i, caller, apply_error, restore_result, summary, run_result, invoked, pureVars>>

Next ==
    \/ Receive
    \/ StageNew
    \/ StageFile
    \/ StageReturn
    \/ ApplyNew
    \/ ApplyBackup
    \/ ApplyWrite
    \/ ApplyCreate
    \/ ApplyReturn
    \/ RestoreCreated
    \/ RestoreBackup
    \/ ApplyRestoreReturn
    \/ RunLint
    \/ RunTypes
    \/ RunTests
    \/ CommitUnverified
    \/ CommitPassing
    \/ CommitDespiteFailure
    \/ CommitOnVerifyError
    \/ Rollback
    \/ RollbackReturn

Spec == Init /\ [][Next]_vars

(***************************************************************************)
(* validate_input on its own: every request against both working trees     *)
(***************************************************************************)
ValidationInit ==
    /\ \E dExists \in BOOLEAN : fs = InitFs(dExists)
    /\ pipeline = [linter |-> FALSE, type_checker |-> FALSE, test_runner |-> FALSE]
    /\ CallIdle
    /\ \E km \in EntryCounts :
          \E es \in EditSeqs(km[1]), cs \in CreateSeqs(km[2]) :
              \* validate_input reads neither flag
              batch_input = [edits |-> es, creates |-> cs,
                             verify |-> None, rollback_on_failure |-> None]
    /\ validated = NotValidated
    /\ NoEditSetInput
    /\ SurgeonIdle

\* Transaction::new: validate_input(&project_root, &input)
Validate ==
    /\ ~validated.done
    /\ validated' = [done |-> TRUE, res |-> validate_input(project_root, fs, batch_input)]
    /\ UNCHANGED <<fs, pre, pipeline, pc, st, edits, creates, verify, rollback_flag, staging,
                   stagingDir, backups, backupDir, i, caller, apply_error, restore_result,
                   summary, run_result, invoked, result, batch_input,
                   text_edits, source_len, edit_set, source, applied, operations,
                   outcome, params, disk, pending, surgeon_result, cleanup, wasm, calls>>

ValidationNext == Validate

ValidationSpec == ValidationInit /\ [][ValidationNext]_vars

(***************************************************************************)
(* EditSet::new (ast-surgeon-core/src/edit.rs) on its own                  *)
(***************************************************************************)
\* A faulty comparator that leaves the priority out.
EditLessIgnoringPriority(a, b) ==
    \/ a.start < b.start
    \/ a.start = b.start /\ a.end < b.end

\* The comparator of edits.sort_by: (start, end, priority) ascending.
EditLess(a, b) ==
    \/ a.start < b.start
    \/ a.start = b.start /\ a.end < b.end
    \/ a.start = b.start /\ a.end = b.end /\ a.priority < b.priority

\* Stable insertion of e into a sorted sequence: after every element that is
\* not greater than e.
RECURSIVE InsertSorted(_, _)
InsertSorted(sorted, e) ==
    IF sorted = <<>> THEN <<e>>
    ELSE IF EditLess(e, Head(sorted)) THEN <<e>> \o sorted
    ELSE <<Head(sorted)>> \o InsertSorted(Tail(sorted), e)

\* A faulty EditSet::new that forgets to sort.
UnsortedEdits(es) == es

\* slice::sort_by (a stable sort)
RECURSIVE SortEdits(_)
SortEdits(es) ==
    IF es = <<>> THEN <<>>
    ELSE InsertSorted(SortEdits(SubSeq(es, 1, Len(es) - 1)), es[Len(es)])

OutOfBounds(e, len) == e.start > e.end \/ e.end > len

\* The test of the windows(2) loop on the pair (a, b).
WindowOverlaps(a, b) ==
    IF a.start = a.end /\ b.start = b.end /\ a.start = b.start THEN FALSE
    ELSE a.end > b.start

EditSet_new(es, len) ==
    LET sorted == SortEdits(es)
        oob == { k \in 1..Len(sorted) : OutOfBounds(sorted[k], len) }
        ovl == { k \in 1..(Len(sorted) - 1) : WindowOverlaps(sorted[k], sorted[k + 1]) }
    IN IF oob # {}
       THEN LET k == CHOOSE x \in oob : \A y \in oob : x <= y IN
            [ok |-> FALSE,
             error |-> [kind |-> "OutOfBounds", labels |-> <<sorted[k].label>>]]
       ELSE IF ovl # {}
       THEN LET k == CHOOSE x \in ovl : \A y \in ovl : x <= y IN
            [ok |-> FALSE,
             error |-> [kind |-> "Overlapping",
                        labels |-> <<sorted[k].label, sorted[k + 1].label>>]]
       ELSE [ok |-> TRUE, edits |-> sorted]

\* The (start, end) pairs the edits are drawn from.
Ranges == (0..MaxOffset) \X (0..MaxOffset)

\* TextEdit { start, end, label, priority }: the k-th edit of a list of n is
\* labelled k and has priority n - k, so that equal ranges arrive in the
\* order opposite to the one the sort gives them.
TextEditSeq(n, r) ==
    [k \in 1..n |-> [start |-> r[k][1], end |-> r[k][2], label |-> k, priority |-> n - k]]

EditSetInit ==
    /\ fs = InitFs(FALSE)
    /\ pipeline = [linter |-> FALSE, type_checker |-> FALSE, test_runner |-> FALSE]
    /\ CallIdle
    /\ batch_input = None
    /\ validated = NotValidated
    /\ \E n \in 0..MaxEdits : \E r \in [1..n -> Ranges] : text_edits = TextEditSeq(n, r)
    /\ source_len \in 0..MaxOffset
    /\ edit_set = NotBuilt
    /\ SurgeonIdle

\* EditSet::new(edits, source_len)
BuildEditSet ==
    /\ ~edit_set.done
    /\ edit_set' = [done |-> TRUE, res |-> EditSet_new(text_edits, source_len)]
    /\ UNCHANGED <<fs, pre, pipeline, pc, st, edits, creates, verify, rollback_flag, staging,
                   stagingDir, backups, backupDir, i, caller, apply_error, restore_result,
                   summary, run_result, invoked, result, batch_input, validated,
                   text_edits, source_len, source, applied, operations, outcome,
                   params, disk, pending, surgeon_result, cleanup, wasm, calls>>

EditSetNext == BuildEditSet

EditSetSpec == EditSetInit /\ [][EditSetNext]_vars

(***************************************************************************)
(* EditSet::apply (ast-surgeon-core/src/edit.rs) on validated edits        *)
(***************************************************************************)
\* A text is a sequence of bytes.  "C3" and "A9" are the two bytes of the one
\* character U+00E9; every other byte is a character of its own.
IsContinuation(b) == b = "A9"

\* str::is_char_boundary
is_char_boundary(s, idx) ==
    \/ idx = 0
    \/ idx = Len(s)
    \/ idx < Len(s) /\ ~IsContinuation(s[idx + 1])

Panic == [panicked |-> TRUE]



\* A faulty replace_range that inserts the replacement and removes nothing.
InsertWithoutRemoving(s, start, end, replacement) ==
    IF start > end \/ end > Len(s)
       \/ ~is_char_boundary(s, start) \/ ~is_char_boundary(s, end)
    THEN Panic
    ELSE [panicked |-> FALSE,
          text |-> SubSeq(s, 1, start) \o replacement \o SubSeq(s, start + 1, Len(s))]

\* String::replace_range(start..end, replacement): panics when the range is
\* not inside the string or one of its ends is not a char boundary.
replace_range(s, start, end, replacement) ==
    IF start > end \/ end > Len(s)
       \/ ~is_char_boundary(s, start) \/ ~is_char_boundary(s, end)
    THEN Panic
    ELSE [panicked |-> FALSE,
          text |-> SubSeq(s, 1, start) \o replacement \o SubSeq(s, end + 1, Len(s))]

\* The loop of EditSet::apply: the edits from the last to the first, each
\* replace_range on the text the later edits have already changed.
RECURSIVE ApplyReverse(_, _, _)
ApplyReverse(text, es, k) ==
    IF k = 0 THEN [panicked |-> FALSE, text |-> text]
    ELSE LET r == replace_range(text, es[k].start, es[k].end, es[k].replacement) IN
         IF r.panicked THEN Panic ELSE ApplyReverse(r.text, es, k - 1)

\* A faulty apply that takes the edits from the first to the last.
RECURSIVE ApplyForward(_, _, _)
ApplyForward(text, es, k) ==
    IF k > Len(es) THEN [panicked |-> FALSE, text |-> text]
    ELSE IF es[k].end > Len(text) THEN Panic
    ELSE ApplyForward(SubSeq(text, 1, es[k].start) \o es[k].replacement
                          \o SubSeq(text, es[k].end + 1, Len(text)), es, k + 1)

ApplyInOrder(es, src) == ApplyForward(src, es, 1)

EditSet_apply(es, src) == ApplyReverse(src, es, Len(es))

\* The sources: n distinct one-byte characters, or the same with the
\* two-byte character in front or at the end.
SourceBytes == <<"a", "b", "c", "d">>
Sources(n) ==
    {SubSeq(SourceBytes, 1, n)}
        \cup (IF n >= 2 THEN {<<"C3", "A9">> \o SubSeq(SourceBytes, 3, n)} ELSE {})
        \cup (IF n >= 3 THEN {SubSeq(SourceBytes, 1, n - 2) \o <<"C3", "A9">>} ELSE {})

\* The replacement of the edit labelled k: w copies of the k-th letter.
ReplacementBytes == <<"V", "W", "X", "Y", "Z">>
Replacement(k, w) == [j \in 1..w |-> ReplacementBytes[k]]

\* The replacement lengths: the k-th edit's is (p + q * k) % 3, so that over
\* the profiles (p, q) every pair of lengths in 0..2 occurs for two edits.
Profiles == (0..2) \X (0..2)

\* TextEdit { start, end, replacement, label, priority }
TextEditsWithReplacement(n, r, pq) ==
    [k \in 1..n |->
        [start |-> r[k][1], end |-> r[k][2], label |-> k, priority |-> n - k,
         replacement |-> Replacement(k, (pq[1] + pq[2] * k) % 3)]]

\* The well-formed ranges of a source of length len.
RangesWithin(len) == { r \in Ranges : r[1] <= r[2] /\ r[2] <= len }

ApplyInit ==
    /\ fs = InitFs(FALSE)
    /\ pipeline = [linter |-> FALSE, type_checker |-> FALSE, test_runner |-> FALSE]
    /\ CallIdle
    /\ batch_input = None
    /\ validated = NotValidated
    /\ \E len \in 0..MaxOffset :
          /\ source \in Sources(len)
          /\ source_len = len
          /\ \E n \in 0..MaxEdits : \E r \in [1..n -> RangesWithin(len)], pq \in Profiles :
                text_edits = TextEditsWithReplacement(n, r, pq)
    /\ edit_set = NotBuilt
    /\ applied = NotApplied
    /\ operations = <<>>
    /\ outcome = NotExecuted
    /\ NoSurgeonCall
    /\ cleanup = NoCleanup
    /\ calls = NoCalls

\* edit_set.apply(source), for an edit_set that EditSet::new returned
ApplyEditSet ==
    /\ edit_set.done
    /\ edit_set.res.ok
    /\ ~applied.done
    /\ applied' = [done |-> TRUE, res |-> EditSet_apply(edit_set.res.edits, source)]
    /\ UNCHANGED <<fs, pre, pipeline, pc, st, edits, creates, verify, rollback_flag, staging,
                   stagingDir, backups, backupDir, i, caller, apply_error, restore_result,
                   summary, run_result, invoked, result, batch_input, validated,
                   text_edits, source_len, edit_set, source, operations, outcome,
                   params, disk, pending, surgeon_result, cleanup, wasm, calls>>

ApplyNext ==
    \/ BuildEditSet
    \/ ApplyEditSet

ApplySpec == ApplyInit /\ [][ApplyNext]_vars

(***************************************************************************)
(* execute_operations (ast-surgeon-core/src/lib.rs) on its own             *)
(***************************************************************************)
\* The sources of the driver are token texts: "f" and "g" are identifiers of
\* one byte, which the grammar accepts in any sequence, and "#" is a byte no
\* rule of the grammar accepts (tree-sitter wraps it in an ERROR node).
IdentifierBytes == {"f", "g"}
Unparsable == "#"
TokenBytes == IdentifierBytes \cup {Unparsable}

\* Node::has_error of the root of the tree Parser::parse builds for text.
has_error(text) == \E k \in DOMAIN text : text[k] = Unparsable

\* validate::verify_parse: Err(SyntaxErrors) when the root has an error.
verify_parse(text) ==
    IF has_error(text) THEN [ok |-> FALSE, error |-> [kind |-> "SyntaxErrors"]]
    ELSE [ok |-> TRUE]

\* Err(OperationError::<kind>)
OpErr(kind) == [ok |-> FALSE, error |-> [kind |-> kind]]

\* The names a rename_symbol is asked for: "", "f", "g" and "#".
Names == {<<>>, <<"f">>, <<"g">>, <<Unparsable>>}

\* The operations a list is drawn from: every rename_symbol over Names (with
\* no scope) and a wrap_in_block whose wrap_kind is none of the four known.
RenameOps == [op : {"rename_symbol"}, from : Names, to : Names]
UnknownWrap == [op |-> "wrap_in_block", wrap_kind |-> "while"]
Ops == RenameOps \cup {UnknownWrap}
MaxOps == 2

\* operation_to_executable: of the operations drawn, only the wrap_in_block
\* fails here (Invalid wrap_kind).
operation_to_executable(op) ==
    IF op.op = "wrap_in_block"
    THEN IF op.wrap_kind \in {"if", "try_catch", "for_of", "block"}
         THEN [ok |-> TRUE]
         ELSE OpErr("InvalidParams")
    ELSE [ok |-> TRUE]

\* collect_rename_edits: one edit for each identifier node whose text is
\* from, in the order of the walk (ascending offsets).
RECURSIVE collect_rename_edits(_, _, _, _)
collect_rename_edits(src, from, to, k) ==
    IF k > Len(src) THEN <<>>
    ELSE (IF src[k] \in IdentifierBytes /\ <<src[k]>> = from
          THEN << [start |-> k - 1, end |-> k, replacement |-> to,
                   label |-> <<"rename", from, to>>, priority |-> 0] >>
          ELSE <<>>)
         \o collect_rename_edits(src, from, to, k + 1)

\* A faulty compute_edits without the no-op test.
compute_edits_without_noop(op, src) ==
    IF op.from = <<>> \/ op.to = <<>> THEN OpErr("InvalidParams")
    ELSE LET found == collect_rename_edits(src, op.from, op.to, 1) IN
         IF found = <<>> THEN OpErr("TargetNotFound")
         ELSE [ok |-> TRUE, edits |-> found]

\* RenameSymbol::compute_edits
compute_edits(op, src) ==
    IF op.from = <<>> \/ op.to = <<>> THEN OpErr("InvalidParams")
    ELSE IF op.from = op.to THEN [ok |-> TRUE, edits |-> <<>>]
    ELSE LET found == collect_rename_edits(src, op.from, op.to, 1) IN
         IF found = <<>> THEN OpErr("TargetNotFound")
         ELSE [ok |-> TRUE, edits |-> found]

\* The body of the loop over ops: operation_to_executable(op)? and then
\* executable.compute_edits(source, tree)?
Compile(op, src) ==
    LET executable == operation_to_executable(op) IN
    IF ~executable.ok THEN executable ELSE compute_edits(op, src)

\* The loop over ops from the k-th on: the first Err leaves the function.
RECURSIVE CompileFrom(_, _, _, _)
CompileFrom(ops, src, k, all_edits) ==
    IF k > Len(ops) THEN [ok |-> TRUE, edits |-> all_edits]
    ELSE LET c == Compile(ops[k], src) IN
         IF ~c.ok THEN c ELSE CompileFrom(ops, src, k + 1, all_edits \o c.edits)

\* Ok(OperationResult { content, changes, warnings: [] })
OpOk(content, changes) == [ok |-> TRUE, content |-> content, changes |-> changes]

\* The ChangeDescriptions of the stored edits (the sources hold no newline:
\* every change is on line 1).
Changes(es) ==
    [k \in DOMAIN es |-> [kind |-> es[k].label, line |-> 1, column |-> es[k].start + 1]]

\* The part of execute_operations after the edits are collected.
Finish(src, all_edits) ==
    IF all_edits = <<>> THEN OpOk(src, <<>>)
    ELSE LET set == EditSet_new(all_edits, Len(src)) IN
         IF ~set.ok
         THEN [ok |-> FALSE, error |-> [kind |-> "EditConflict", conflict |-> set.error]]
         ELSE LET new_source == EditSet_apply(set.edits, src) IN
              IF new_source.panicked THEN Panic
              ELSE IF ~verify_parse(new_source.text).ok THEN OpErr("InvalidResult")
              ELSE OpOk(new_source.text, Changes(set.edits))

\* A faulty driver that runs the operations one after the other, each on the
\* output of the one before.
RECURSIVE ExecuteSequentially(_, _)
ExecuteSequentially(src, ops) ==
    IF ops = <<>> THEN OpOk(src, <<>>)
    ELSE LET c == Compile(Head(ops), src) IN
         IF ~c.ok THEN c
         ELSE LET one == Finish(src, c.edits) IN
              IF ~one.ok THEN one
              ELSE LET rest == ExecuteSequentially(one.content, Tail(ops)) IN
                   IF ~rest.ok THEN rest
                   ELSE OpOk(rest.content, one.changes \o rest.changes)

execute_operations(src, ops) ==
    IF ops = <<>> THEN OpOk(src, <<>>)
    ELSE LET compiled == CompileFrom(ops, src, 1, <<>>) IN
         IF ~compiled.ok THEN compiled ELSE Finish(src, compiled.edits)

ExecInit ==
    /\ fs = InitFs(FALSE)
    /\ pipeline = [linter |-> FALSE, type_checker |-> FALSE, test_runner |-> FALSE]
    /\ CallIdle
    /\ batch_input = None
    /\ validated = NotValidated
    /\ NoEditSetInput
    /\ \E n \in 0..MaxOffset : source \in [1..n -> TokenBytes]
    /\ applied = NotApplied
    /\ \E n \in 0..MaxOps : operations \in [1..n -> Ops]
    /\ outcome = NotExecuted
    /\ NoSurgeonCall
    /\ cleanup = NoCleanup
    /\ calls = NoCalls

\* execute_operations(&source, &tree, &ops, &language), the tree being the
\* best-effort parse of source
Execute ==
    /\ ~outcome.done
    /\ outcome' = [done |-> TRUE, res |-> execute_operations(source, operations)]
    /\ UNCHANGED <<fs, pre, pipeline, pc, st, edits, creates, verify, rollback_flag, staging,
                   stagingDir, backups, backupDir, i, caller, apply_error, restore_result,
                   summary, run_result, invoked, result, batch_input, validated,
                   text_edits, source_len, edit_set, source, applied, operations,
                   params, disk, pending, surgeon_result, cleanup, wasm, calls>>

ExecNext == Execute

ExecSpec == ExecInit /\ [][ExecNext]_vars

(***************************************************************************)
(* SurgeonTool::call (fe-mcp-server/src/tools/surgeon.rs) and the WASM     *)
(* entry points (ast-surgeon-wasm/src/lib.rs)                              *)
(***************************************************************************)
\* The 'file' strings of the operations: "a.ts", "b.ts", "c.md", "m.ts" and
\* "../e.ts".
SurgeonFiles ==
    { <<"a", ".", "t", "s">>, <<"b", ".", "t", "s">>, <<"c", ".", "m", "d">>,
      <<"m", ".", "t", "s">>, <<".", ".", "/", "e", ".", "t", "s">> }

\* The file the operating system opens for project_root.join(file_path).
SurgeonLoc(file) == normalize_path(Join(project_root, file))

SurgeonLocs == { SurgeonLoc(f) : f \in SurgeonFiles }

AbsentFile == [kind |-> "absent"]
RegularFile(content) == [kind |-> "file", content |-> content]

\* The disk before the call: a.ts holds "fg"; b.ts, c.md and /e.ts hold "f";
\* there is no m.ts.
InitDisk ==
    [l \in SurgeonLocs |->
        IF l = SurgeonLoc(<<"a", ".", "t", "s">>) THEN RegularFile(<<"f", "g">>)
        ELSE IF l = SurgeonLoc(<<"m", ".", "t", "s">>) THEN AbsentFile
        ELSE RegularFile(<<"f">>)]

\* Path::extension of the request string: what follows the last '.' of the
\* last component, unless that '.' is its first character.
extension(file) ==
    LET comps == SplitAcc(file, <<>>, <<>>)
        name == IF comps = <<>> THEN <<>> ELSE comps[Len(comps)]
        dots == { k \in DOMAIN name : name[k] = "." }
    IN IF dots = {} THEN <<>>
       ELSE LET last == CHOOSE k \in dots : \A j \in dots : j <= k IN
            IF last = 1 THEN <<>> ELSE SubSeq(name, last + 1, Len(name))

\* SupportedLanguage::from_extension
SupportedExtensions ==
    { <<"t", "s">>, <<"t", "s", "x">>, <<"j", "s">>, <<"m", "j", "s">>,
      <<"c", "j", "s">>, <<"j", "s", "x">>, <<"c", "s", "s">> }

\* registry::detect_language(path).is_ok()
detect_language(file) == extension(file) \in SupportedExtensions

\* The JSON values of 'operations': rename_symbol f -> g, g -> f and f -> #,
\* and a rename_symbol without 'to'; each with a 'file' or without one.
NoFile == <<"<", "n", "o", "n", "e", ">">>
OpValues ==
    [op : {"rename_symbol"}, file : SurgeonFiles \cup {NoFile},
     from : {<<"f">>}, to : {<<"g">>, <<Unparsable>>}]
        \cup [op : {"rename_symbol"}, file : SurgeonFiles \cup {NoFile},
              from : {<<"g">>}, to : {<<"f">>}]
        \cup [op : {"rename_symbol"}, file : SurgeonFiles \cup {NoFile}, from : {<<"f">>}]

\* serde_json::from_value::<Operation>(v).is_ok(): rename_symbol needs
\* 'from' and 'to'.
Deserializes(v) == {"from", "to"} \subseteq DOMAIN v

\* ops_by_file[file]: the values of the request that name file, in order.
ops_by_file(ps, file) == SelectSeq(ps.operations, LAMBDA v : v.file = file)

\* The keys of ops_by_file.
GroupedFiles(ps) == { ps.operations[k].file : k \in DOMAIN ps.operations }

\* SurgeonResult { status: "success", .. } as the loop starts.
NewSurgeonResult(dry_run) ==
    [started |-> TRUE, returned |-> FALSE, is_error |-> FALSE, status |-> "success",
     files_modified |-> <<>>, changes |-> <<>>, warnings |-> <<>>, dry_run |-> dry_run]

\* ToolCallResult::error("Every operation must have a 'file' field")
MissingFileResult(dry_run) ==
    [NewSurgeonResult(dry_run) EXCEPT !.returned = TRUE, !.is_error = TRUE,
                                      !.status = "none"]

\* A faulty failure arm that forgets the files already listed.
FileFailedDropsModified(res, file, what) ==
    [res EXCEPT !.status = "error",
                !.files_modified = <<>>,
                !.warnings = Append(@, [file |-> file, what |-> what])]

\* A per-file failure that sets the status: result.status = "error" and a
\* warning.
FileFailed(res, file, what) ==
    [res EXCEPT !.status = "error",
                !.warnings = Append(@, [file |-> file, what |-> what])]

\* The unsupported file type: a warning, and continue.
FileSkipped(res, file) ==
    [res EXCEPT !.warnings = Append(@, [file |-> file, what |-> "Unsupported file type, skipping"])]

\* files_modified and changes of a file whose operations succeeded.
FileDone(res, file, op_result) ==
    [res EXCEPT !.files_modified = Append(@, file),
                !.changes = Append(@, [file |-> file, changes |-> op_result.changes])]

\* A faulty test that lets a dry run write too.
writes_always(dry_run) == TRUE

\* 'if !params.dry_run' in front of std::fs::write
writes_back(dry_run) == ~dry_run

\* std::fs::write: File::create (which truncates) and write_all.
FsWriteOutcomes == {"ok", "fail_create", "fail_write"}
fs_write(d, loc, content, o) ==
    IF o = "ok" THEN [d EXCEPT ![loc] = RegularFile(content)]
    ELSE IF o = "fail_write" THEN [d EXCEPT ![loc] = RegularFile(<<>>)]
    ELSE d

SurgeonInit ==
    /\ fs = InitFs(FALSE)
    /\ pipeline = [linter |-> FALSE, type_checker |-> FALSE, test_runner |-> FALSE]
    /\ CallIdle
    /\ batch_input = None
    /\ validated = NotValidated
    /\ NoEditSetInput
    /\ NoExecInput
    /\ params = NoParams
    /\ disk = InitDisk
    /\ pending = {}
    /\ surgeon_result = NoSurgeonResult
    /\ wasm = NotProcessed
    /\ cleanup = NoCleanup
    /\ calls = NoCalls

\* SurgeonTool::call up to the loop: the parameters are read, the operations
\* are grouped by file (an operation without 'file' ends the call) and the
\* result is set up.
SurgeonReceive ==
    /\ ~params.received
    /\ ~wasm.done
    /\ \E n \in 0..MaxOps : \E vs \in [1..n -> OpValues], dry \in BOOLEAN :
          LET ps == [received |-> TRUE, operations |-> vs, dry_run |-> dry] IN
          /\ params' = ps
          /\ IF \E k \in DOMAIN vs : vs[k].file = NoFile
             THEN /\ surgeon_result' = MissingFileResult(dry)
                  /\ pending' = {}
             ELSE /\ surgeon_result' = NewSurgeonResult(dry)
                  /\ pending' = GroupedFiles(ps)
    /\ UNCHANGED <<fs, pre, pipeline, pc, st, edits, creates, verify, rollback_flag, staging,
                   stagingDir, backups, backupDir, i, caller, apply_error, restore_result,
                   summary, run_result, invoked, result, batch_input, validated,
                   text_edits, source_len, edit_set, source, applied, operations,
                   outcome, disk, cleanup, wasm, calls>>

\* One round of 'for (file_path, op_values) in &ops_by_file': a HashMap hands
\* its entries out in an order of its own.
SurgeonProcessFile ==
    /\ surgeon_result.started
    /\ ~surgeon_result.returned
    /\ \E file \in pending :
          LET entry == disk[SurgeonLoc(file)]
              op_values == ops_by_file(params, file)
          IN
          /\ pending' = pending \ {file}
          /\ IF entry.kind # "file"
             THEN /\ surgeon_result' = FileFailed(surgeon_result, file, "Failed to read")
                  /\ UNCHANGED disk
             ELSE IF ~detect_language(file)
             THEN /\ surgeon_result' = FileSkipped(surgeon_result, file)
                  /\ UNCHANGED disk
             ELSE IF \E k \in DOMAIN op_values : ~Deserializes(op_values[k])
             THEN /\ surgeon_result' = FileFailed(surgeon_result, file, "Invalid operation")
                  /\ UNCHANGED disk
             ELSE LET op_result == execute_operations(entry.content, op_values) IN
                  IF op_result.ok
                  THEN IF writes_back(params.dry_run)
                       THEN \E o \in FsWriteOutcomes :
                               /\ disk' = fs_write(disk, SurgeonLoc(file), op_result.content, o)
                               /\ surgeon_result' =
                                      IF o = "ok" THEN FileDone(surgeon_result, file, op_result)
                                      ELSE FileFailed(surgeon_result, file, "Failed to write")
                       ELSE /\ surgeon_result' = FileDone(surgeon_result, file, op_result)
                            /\ UNCHANGED disk
                  ELSE /\ surgeon_result' =
                              FileFailed(surgeon_result, file, op_result.error.kind)
                       /\ UNCHANGED disk
    /\ UNCHANGED <<fs, pre, pipeline, pc, st, edits, creates, verify, rollback_flag, staging,
                   stagingDir, backups, backupDir, i, caller, apply_error, restore_result,
                   summary, run_result, invoked, result, batch_input, validated,
                   text_edits, source_len, edit_set, source, applied, operations,
                   outcome, params, cleanup, wasm, calls>>

\* ToolCallResult::text(serde_json::to_string_pretty(&result))
SurgeonReturn ==
    /\ surgeon_result.started
    /\ ~surgeon_result.returned
    /\ pending = {}
    /\ surgeon_result' = [surgeon_result EXCEPT !.returned = TRUE]
    /\ UNCHANGED <<fs, pre, pipeline, pc, st, edits, creates, verify, rollback_flag, staging,
                   stagingDir, backups, backupDir, i, caller, apply_error, restore_result,
                   summary, run_result, invoked, result, batch_input, validated,
                   text_edits, source_len, edit_set, source, applied, operations,
                   outcome, params, disk, pending, cleanup, wasm, calls>>

\* Option<String>
NoContent == [some |-> FALSE]
SomeContent(c) == [some |-> TRUE, value |-> c]

\* SupportedLanguage::from_str(language).is_ok(), for the languages "ts"
\* and "py"
SupportedLanguageName(language) == language = "ts"

\* The file entries of the WASM requests.
WasmOpLists ==
    { <<>>,
      << [op |-> "rename_symbol", from |-> <<"f">>, to |-> <<"g">>] >>,
      << [op |-> "rename_symbol", from |-> <<"g">>, to |-> <<"f">>] >> }
WasmEntries ==
    [language : {"ts", "py"}, content : {<<"f">>, <<Unparsable>>}, operations : WasmOpLists]

\* process_file (process_file_impl and the ErrorResponse of its Err)
process_file(request) ==
    IF ~SupportedLanguageName(request.language)
    THEN [error |-> TRUE, code |-> "PROCESSING_ERROR"]
    ELSE LET op_result == execute_operations(request.content, request.operations) IN
         IF op_result.ok
         THEN [error |-> FALSE,
               content |-> IF request.dry_run THEN NoContent
                           ELSE SomeContent(op_result.content),
               changes |-> op_result.changes,
               status |-> IF request.dry_run THEN "preview" ELSE "applied"]
         ELSE [error |-> TRUE, content |-> NoContent, changes |-> <<>>, status |-> "error"]

\* The loop of process_batch_impl from the k-th entry on.
RECURSIVE BatchFrom(_, _, _, _)
BatchFrom(request, k, results, errors) ==
    IF k > Len(request.files) THEN [results |-> results, errors |-> errors]
    ELSE LET entry == request.files[k] IN
         IF ~SupportedLanguageName(entry.language)
         THEN BatchFrom(request, k + 1, results,
                        Append(errors, [path |-> k, code |-> "UNSUPPORTED_LANGUAGE"]))
         ELSE LET op_result == execute_operations(entry.content, entry.operations) IN
              IF op_result.ok
              THEN BatchFrom(request, k + 1,
                             Append(results,
                                    [path |-> k,
                                     content |-> IF request.dry_run THEN entry.content
                                                 ELSE op_result.content,
                                     changes |-> op_result.changes]),
                             errors)
              ELSE BatchFrom(request, k + 1, results,
                             Append(errors, [path |-> k, code |-> op_result.error.kind]))

\* process_batch (process_batch_impl); the k-th entry has the path k.
process_batch(request) ==
    LET done == BatchFrom(request, 1, <<>>, <<>>) IN
    [results |-> done.results, errors |-> done.errors,
     status |-> IF done.errors = <<>>
                THEN IF request.dry_run THEN "preview" ELSE "applied"
                ELSE IF done.results = <<>> THEN "error" ELSE "partial"]

\* process_file(request_json)
WasmProcessFile ==
    /\ ~params.received
    /\ ~wasm.done
    /\ \E e \in WasmEntries, dry \in BOOLEAN :
          LET request == [language |-> e.language, content |-> e.content,
                          operations |-> e.operations, dry_run |-> dry]
          IN wasm' = [done |-> TRUE, entry |-> "process_file", request |-> request,
                      response |-> process_file(request)]
    /\ UNCHANGED <<fs, pre, pipeline, pc, st, edits, creates, verify, rollback_flag, staging,
                   stagingDir, backups, backupDir, i, caller, apply_error, restore_result,
                   summary, run_result, invoked, result, batch_input, validated,
                   text_edits, source_len, edit_set, source, applied, operations,
                   outcome, params, disk, pending, surgeon_result, cleanup, calls>>

\* process_batch(request_json)
WasmProcessBatch ==
    /\ ~params.received
    /\ ~wasm.done
    /\ \E n \in 0..2 : \E files \in [1..n -> WasmEntries], dry \in BOOLEAN :
          LET request == [files |-> files, dry_run |-> dry]
          IN wasm' = [done |-> TRUE, entry |-> "process_batch", request |-> request,
                      response |-> process_batch(request)]
    /\ UNCHANGED <<fs, pre, pipeline, pc, st, edits, creates, verify, rollback_flag, staging,
                   stagingDir, backups, backupDir, i, caller, apply_error, restore_result,
                   summary, run_result, invoked, result, batch_input, validated,
                   text_edits, source_len, edit_set, source, applied, operations,
                   outcome, params, disk, pending, surgeon_result, cleanup, calls>>

SurgeonNext ==
    \/ SurgeonReceive
    \/ SurgeonProcessFile
    \/ SurgeonReturn
    \/ WasmProcessFile
    \/ WasmProcessBatch

SurgeonSpec == SurgeonInit /\ [][SurgeonNext]_vars

(***************************************************************************)
(* One round of the first loop of FileBackupSet::restore_all               *)
(* (fe-batch/src/file_ops.rs), on trees deeper than those of the batch call *)
(***************************************************************************)
\* The locations of the deeper tree: /p/x, /p/x/y, /p/x/y/n, /p/x/y/o,
\* /p/x/z inside the project root and /q, /q/n outside it.
DirX == project_root \o << <<"x">> >>
DirY == DirX \o << <<"y">> >>
FileN == DirY \o << <<"n">> >>
FileO == DirY \o << <<"o">> >>
FileZ == DirX \o << <<"z">> >>
DirQ == <<RootDir, <<"q">>>>
FileQN == DirQ \o << <<"n">> >>
TreeDirs == {DirX, DirY, DirQ}
TreeFiles == {FileN, FileO, FileZ, FileQN}
TreeLocs == {<<RootDir>>, project_root} \cup TreeDirs \cup TreeFiles

\* The tree in which the directories of dirs and the files of files exist.
Tree(dirs, files) ==
    [l \in TreeLocs |->
        IF l = <<RootDir>> \/ l = project_root \/ l \in dirs THEN Dir
        ELSE IF l \in files THEN "created_1"
        ELSE Absent]

\* The paths record_creation can have been given: a create under two new
\* directories, and a create with an absolute path outside the root.
CreatedPaths == {FileN, FileQN}

CleanupInit ==
    /\ \E dirs \in SUBSET TreeDirs, files \in SUBSET TreeFiles, path \in CreatedPaths :
          \* what exists lies in a directory, and atomic_create has made the
          \* directories above the created path
          /\ \A l \in dirs \cup files : Len(l) > 2 => Parent(l) \in dirs \cup {project_root}
          /\ \A d \in TreeDirs : StartsWith(path, d) => d \in dirs
          /\ fs = Tree(dirs, files)
          /\ cleanup = [done |-> FALSE, path |-> path]
    /\ pipeline = [linter |-> FALSE, type_checker |-> FALSE, test_runner |-> FALSE]
    /\ CallIdle
    /\ batch_input = None
    /\ validated = NotValidated
    /\ NoEditSetInput
    /\ NoExecInput
    /\ NoSurgeonCall
    /\ calls = NoCalls

\* The body of 'for created_path in self.created_files.iter().rev()':
\* remove_file if the path exists (an Err leaves restore_all), then
\* remove_empty_ancestors(parent, &self.project_root).
CleanupCreated ==
    /\ ~cleanup.done
    /\ \E ok \in BOOLEAN :
          IF ok
          THEN /\ fs' = remove_empty_ancestors(
                            IF Exists(fs, cleanup.path)
                            THEN [fs EXCEPT ![cleanup.path] = Absent] ELSE fs,
                            Parent(cleanup.path), project_root)
               /\ cleanup' = [cleanup EXCEPT !.done = TRUE] @@ [failed |-> FALSE]
          ELSE /\ Exists(fs, cleanup.path)
               /\ cleanup' = [cleanup EXCEPT !.done = TRUE] @@ [failed |-> TRUE]
               /\ UNCHANGED fs
    /\ UNCHANGED <<pre, pipeline, pc, st, edits, creates, verify, rollback_flag, staging,
                   stagingDir, backups, backupDir, i, caller, apply_error, restore_result,
                   summary, run_result, invoked, result, batch_input, validated,
                   text_edits, source_len, edit_set, source, applied, operations,
                   outcome, params, disk, pending, surgeon_result, wasm, calls>>

CleanupNext == CleanupCreated

CleanupSpec == CleanupInit /\ [][CleanupNext]_vars

(***************************************************************************)
(* Two calls of BatchTool::call on one project.  The engine takes no lock, *)
(* so the steps of the two calls may interleave; under the serial schedule *)
(* one call runs from start to end before the other starts.  The requests  *)
(* name files by plain relative names, so staging touches only the call's  *)
(* own temporary directory.                                                *)
(***************************************************************************)
TxnIds == {1, 2}

\* Every variable but the working tree and the pair of calls.
singleCallVars ==
    <<pre, pipeline, pc, st, edits, creates, verify, rollback_flag, staging, stagingDir,
      backups, backupDir, i, caller, apply_error, restore_result, summary, run_result,
      invoked, result, batch_input, validated, text_edits, source_len, edit_set, source,
      applied, operations, outcome, params, disk, pending, surgeon_result, cleanup, wasm>>

\* A call that has not started: no Transaction value yet.
IdleTxn ==
    [pc |-> "idle", edits |-> <<>>, creates |-> <<>>, verify |-> TRUE,
     rollback_on_failure |-> TRUE, staging |-> <<>>, backups |-> EmptyBackups, i |-> 0,
     caller |-> "none", apply_error |-> "none", restore_result |-> RestoreNone,
     status |-> "none", began |-> <<>>]

\* What the two calls write: each call has its own content.
TxnContents == <<"call_1_content", "call_2_content">>
TxnCreated == <<"call_1_created", "call_2_created">>

\* The files a request edits and creates.
TxnEditLists == { <<>>, << <<"a">> >> }
TxnCreateLists == { <<>>, << <<"n">> >> }

TxnRequests(t) ==
    { [edits |-> [j \in 1..Len(fl) |->
                    [file |-> fl[j], content |-> TxnContents[t], operations |-> None]],
       creates |-> [j \in 1..Len(cl) |-> [file |-> cl[j], content |-> TxnCreated[t]]],
       verify |-> v, rollback_on_failure |-> r] :
        fl \in TxnEditLists, cl \in TxnCreateLists, v \in OptBool, r \in OptBool }

ConcurrentInit ==
    /\ fs = InitFs(FALSE)
    /\ pipeline = [linter |-> FALSE, type_checker |-> FALSE, test_runner |-> FALSE]
    /\ CallIdle
    /\ batch_input = None
    /\ validated = NotValidated
    /\ NoEditSetInput
    /\ NoExecInput
    /\ NoSurgeonCall
    /\ cleanup = NoCleanup
    /\ \E s \in {"serial", "interleaved"} :
          calls = [started |-> TRUE, schedule |-> s, txn |-> [t \in TxnIds |-> IdleTxn]]

\* Under the serial schedule a call takes a step only while the other call is
\* not under way.
MayStep(t) ==
    calls.schedule = "serial" =>
        \A u \in TxnIds \ {t} : calls.txn[u].pc \in {"idle", "done"}

\* The call returns: the Transaction and its FileBackupSet are dropped.
TxnReturns(x, status) == [x EXCEPT !.pc = "done", !.status = status]

\* restore_all is entered by apply (after a failed write) or by rollback.
TxnRestoreFrom(x, who) ==
    [x EXCEPT !.caller = who, !.pc = RestoreEntry(x.backups).pc,
              !.i = RestoreEntry(x.backups).i,
              !.restore_result = RestoreEntry(x.backups).res]

\* BatchTool::call up to Transaction::new
TxnBegin(t) ==
    /\ MayStep(t)
    /\ calls.txn[t].pc = "idle"
    /\ \E input \in TxnRequests(t) :
          LET v == validate_input(project_root, fs, input)
              x == calls.txn[t]
          IN calls' = [calls EXCEPT !.txn[t] =
                 IF v.ok
                 THEN [x EXCEPT !.pc = "stage", !.edits = v.edits, !.creates = v.creates,
                                !.verify = verify_enabled(input),
                                !.rollback_on_failure = rollback_on_failure(input),
                                !.began = fs]
                 ELSE TxnReturns(x, "Validation failed")]
    /\ UNCHANGED <<fs, singleCallVars>>

\* Transaction<Pending>::stage: every edit and create is written into the
\* call's own staging directory.
TxnStage(t) ==
    /\ MayStep(t)
    /\ calls.txn[t].pc = "stage"
    /\ LET x == calls.txn[t] IN
       \E ok \in BOOLEAN :
          calls' = [calls EXCEPT !.txn[t] =
             IF ok
             THEN [x EXCEPT !.pc = "apply_new",
                            !.staging =
                                [j \in 1..Len(x.edits) |->
                                    [relative_path |-> x.edits[j].relative_path,
                                     is_new |-> FALSE,
                                     content |-> x.edits[j].change.content]]
                                \o [j \in 1..Len(x.creates) |->
                                    [relative_path |-> x.creates[j].relative_path,
                                     is_new |-> TRUE,
                                     content |-> x.creates[j].content]]]
             ELSE TxnReturns(x, "Staging failed")]
    /\ UNCHANGED <<fs, singleCallVars>>

\* apply: FileBackupSet::new
TxnApplyNew(t) ==
    /\ MayStep(t)
    /\ calls.txn[t].pc = "apply_new"
    /\ LET x == calls.txn[t] IN
       \E ok \in BOOLEAN :
          calls' = [calls EXCEPT !.txn[t] =
             IF ok
             THEN [x EXCEPT !.backups = EmptyBackups, !.i = 1,
                            !.pc = IF x.edits # <<>> THEN "apply_backup" ELSE "apply_create"]
             ELSE TxnReturns(x, "Apply failed")]
    /\ UNCHANGED <<fs, singleCallVars>>

\* A faulty backup_file that records the backup without copying the content.
backup_file_empty(b, f, path) ==
    [b EXCEPT !.backups = Append(@, [original_path |-> path,
                                     backup_name |-> Len(b.backups),
                                     content |-> ""])]

\* FileBackupSet::backup_file: fs::copy(path, backup_dir/backup_<n>), then push.
backup_file(b, f, path) ==
    [b EXCEPT !.backups = Append(@, [original_path |-> path,
                                     backup_name |-> Len(b.backups),
                                     content |-> f[path]])]

\* apply, first loop: backups.backup_file(&edit.absolute_path)?
TxnApplyBackup(t) ==
    /\ MayStep(t)
    /\ calls.txn[t].pc = "apply_backup"
    /\ LET x == calls.txn[t]
           path == x.edits[x.i].absolute_path
       IN \E ok \in BOOLEAN :
             /\ ok => IsFile(fs, path)
             /\ calls' = [calls EXCEPT !.txn[t] =
                   IF ok
                   THEN [x EXCEPT !.backups = backup_file(x.backups, fs, path),
                                  !.i = IF x.i = Len(x.edits) THEN 1 ELSE x.i + 1,
                                  !.pc = IF x.i = Len(x.edits) THEN "apply_write"
                                         ELSE "apply_backup"]
                   ELSE TxnReturns(x, "Apply failed")]
    /\ UNCHANGED <<fs, singleCallVars>>

\* apply, second loop: atomic_write of each edit; a failure calls restore_all.
TxnApplyWrite(t) ==
    /\ MayStep(t)
    /\ calls.txn[t].pc = "apply_write"
    /\ LET x == calls.txn[t]
           staged == read_staged(x.staging, x.edits[x.i].relative_path)
       IN \E o \in WriteOutcomes :
             LET w == atomic_write(fs, x.edits[x.i].absolute_path, staged.content, o) IN
             /\ fs' = w.fs
             /\ calls' = [calls EXCEPT !.txn[t] =
                   IF w.ok
                   THEN [x EXCEPT !.i = IF x.i = Len(x.edits) THEN 1 ELSE x.i + 1,
                                  !.pc = IF x.i < Len(x.edits) THEN "apply_write"
                                         ELSE IF x.creates # <<>> THEN "apply_create"
                                         ELSE "applied"]
                   ELSE TxnRestoreFrom([x EXCEPT !.apply_error = w.error.kind], "apply")]
    /\ UNCHANGED singleCallVars

\* A faulty third loop that records the creation before atomic_create has
\* returned, so that a failed create is recorded too.
TxnApplyCreateRecordsFirst(t) ==
    /\ MayStep(t)
    /\ calls.txn[t].pc = "apply_create"
    /\ LET x == calls.txn[t]
           staged == read_staged(x.staging, x.creates[x.i].relative_path)
           r == [x EXCEPT !.backups.created_files =
                              Append(@, x.creates[x.i].absolute_path)]
       IN \E o \in WriteOutcomes :
             LET w == atomic_create(fs, x.creates[x.i].absolute_path, staged.content, o) IN
             /\ fs' = w.fs
             /\ calls' = [calls EXCEPT !.txn[t] =
                   IF w.ok
                   THEN [r EXCEPT !.i = x.i + 1,
                                  !.pc = IF x.i < Len(x.creates) THEN "apply_create"
                                         ELSE "applied"]
                   ELSE TxnRestoreFrom([r EXCEPT !.apply_error = w.error.kind], "apply")]
    /\ UNCHANGED singleCallVars

\* apply, third loop: atomic_create of each create, then record_creation.
TxnApplyCreate(t) ==
    /\ MayStep(t)
    /\ calls.txn[t].pc = "apply_create"
    /\ LET x == calls.txn[t]
           staged == read_staged(x.staging, x.creates[x.i].relative_path)
       IN \E o \in WriteOutcomes :
             LET w == atomic_create(fs, x.creates[x.i].absolute_path, staged.content, o) IN
             /\ fs' = w.fs
             /\ calls' = [calls EXCEPT !.txn[t] =
                   IF w.ok
                   THEN [x EXCEPT !.backups.created_files =
                                      Append(@, x.creates[x.i].absolute_path),
                                  !.i = x.i + 1,
                                  !.pc = IF x.i < Len(x.creates) THEN "apply_create"
                                         ELSE "applied"]
                   ELSE TxnRestoreFrom([x EXCEPT !.apply_error = w.error.kind], "apply")]
    /\ UNCHANGED singleCallVars

\* restore_all, first loop: created files in reverse.
TxnRestoreCreated(t) ==
    /\ MayStep(t)
    /\ calls.txn[t].pc = "restore_created"
    /\ LET x == calls.txn[t]
           path == x.backups.created_files[x.i]
       IN \E ok \in BOOLEAN :
             IF ok
             THEN /\ fs' = remove_empty_ancestors(
                               IF Exists(fs, path) THEN [fs EXCEPT ![path] = Absent] ELSE fs,
                               Parent(path), project_root)
                  /\ calls' = [calls EXCEPT !.txn[t] =
                        IF x.i > 1 THEN [x EXCEPT !.i = x.i - 1]
                        ELSE IF x.backups.backups # <<>>
                        THEN [x EXCEPT !.i = Len(x.backups.backups), !.pc = "restore_backups"]
                        ELSE [x EXCEPT !.i = 0, !.pc = "restore_return",
                                       !.restore_result = RestoreOk]]
             ELSE /\ Exists(fs, path)
                  /\ calls' = [calls EXCEPT !.txn[t] =
                        [x EXCEPT !.pc = "restore_return",
                                  !.restore_result = RestoreErr(path)]]
                  /\ UNCHANGED fs
    /\ UNCHANGED singleCallVars

\* restore_all, second loop: backups in reverse; fs::copy(backup, original).
TxnRestoreBackup(t) ==
    /\ MayStep(t)
    /\ calls.txn[t].pc = "restore_backups"
    /\ LET x == calls.txn[t]
           b == x.backups.backups[x.i]
       IN \E ok \in BOOLEAN :
             IF ok
             THEN /\ ~IsDir(fs, b.original_path)
                  /\ fs' = [fs EXCEPT ![b.original_path] = b.content]
                  /\ calls' = [calls EXCEPT !.txn[t] =
                        IF x.i > 1 THEN [x EXCEPT !.i = x.i - 1]
                        ELSE [x EXCEPT !.i = 0, !.pc = "restore_return",
                                       !.restore_result = RestoreOk]]
             ELSE /\ calls' = [calls EXCEPT !.txn[t] =
                        [x EXCEPT !.pc = "restore_return",
                                  !.restore_result = RestoreErr(b.original_path)]]
                  /\ UNCHANGED fs
    /\ UNCHANGED singleCallVars

\* restore_all has returned: apply ignores its result and returns the write
\* error; rollback returns its error, or Ok and the call answers rolled_back.
TxnRestoreReturn(t) ==
    /\ MayStep(t)
    /\ calls.txn[t].pc = "restore_return"
    /\ LET x == calls.txn[t] IN
       calls' = [calls EXCEPT !.txn[t] =
          IF x.caller = "apply" THEN TxnReturns(x, "Apply failed")
          ELSE IF x.restore_result.kind = "Ok" THEN TxnReturns(x, "rolled_back")
          ELSE TxnReturns(x, "Rollback failed")]
    /\ UNCHANGED <<fs, singleCallVars>>

\* What VerificationPipeline::run gives the call: Ok(summary) with
\* is_passing() true or false, or Err.
VerificationOutcomes == {"passing", "failing", "error"}

\* After apply: verification if requested, then commit or rollback.
TxnDecide(t) ==
    /\ MayStep(t)
    /\ calls.txn[t].pc = "applied"
    /\ LET x == calls.txn[t] IN
       \E v \in VerificationOutcomes :
          calls' = [calls EXCEPT !.txn[t] =
             IF ~x.verify \/ v \in {"passing", "error"} THEN TxnReturns(x, "success")
             ELSE IF x.rollback_on_failure THEN TxnRestoreFrom(x, "rollback")
             ELSE TxnReturns(x, "verification_failed")]
    /\ UNCHANGED <<fs, singleCallVars>>

ConcurrentNext ==
    \E t \in TxnIds :
        \/ TxnBegin(t)
        \/ TxnStage(t)
        \/ TxnApplyNew(t)
        \/ TxnApplyBackup(t)
        \/ TxnApplyWrite(t)
        \/ TxnApplyCreate(t)
        \/ TxnRestoreCreated(t)
        \/ TxnRestoreBackup(t)
        \/ TxnRestoreReturn(t)
        \/ TxnDecide(t)

ConcurrentSpec == ConcurrentInit /\ [][ConcurrentNext]_vars

(***************************************************************************)
(* Properties                                                              *)
(***************************************************************************)
ApplyReturnedError == pc = "done" /\ result.is_error /\ result.message = "Apply failed"

\* Every regular file of the pre-transaction tree reads what it read then.
PreExistingFilesIntact == \A l \in Locs : IsFile(pre, l) => fs[l] = pre[l]

\* C1: whenever apply returns an error, at that moment every file that existed
\* before the transaction has its pre-transaction content and no file that this
\* apply created exists.
C1_ApplyFailureIsAllOrNothing ==
    ApplyReturnedError =>
        /\ PreExistingFilesIntact
        /\ \A k \in 1..Len(backups.created_files) : ~Exists(fs, backups.created_files[k])

\* C2: after a transaction reached Applied and was rolled back successfully,
\* every file named in edits reads what it read before Transaction::new and no
\* file named in creates exists.
C2_RollbackRestoresPreState ==
    st = "RolledBack" =>
        /\ \A k \in 1..Len(edits) :
              fs[edits[k].absolute_path] = pre[edits[k].absolute_path]
        /\ \A k \in 1..Len(creates) : ~Exists(fs, creates[k].absolute_path)

\* C3: after commit, each file named in edits or creates reads exactly the
\* content the request carries for that path.
C3_CommitPublishesStagedContent ==
    st = "Committed" =>
        /\ \A k \in 1..Len(edits) :
              fs[edits[k].absolute_path] = edits[k].change.content
        /\ \A k \in 1..Len(creates) :
              fs[creates[k].absolute_path] = creates[k].content

\* The summary holds the synthetic diagnostic of an undecodable stdout.
ParserFailed(s) ==
    \/ s.lint.errors = <<"Failed to parse ESLint JSON output">>
    \/ s.tests.errors = <<"<parse error>">>

\* Verification errored: the pipeline returned Err, or a tool's output could
\* not be decoded.  Verification failed: a decoded step reported errors.
VerificationErrored == verify /\ (run_result = "Err" \/ ParserFailed(summary))
VerificationFailed ==
    verify /\ run_result = "Ok" /\ ~is_passing(summary) /\ ~ParserFailed(summary)

\* C4: for every batch whose stage and apply succeeded the call ends as the
\* outcome table says: verification off, passing or errored gives success and
\* Committed (no summary when it errored); failed with rollback on gives
\* rolled_back with the working tree restored; failed with rollback off gives
\* verification_failed and Committed.
C4_OutcomeTable ==
    (pc = "done" /\ st \in {"Applied", "Committed", "RolledBack"}) =>
        /\ ~verify => (result.status = "success" /\ st = "Committed")
        /\ (verify /\ run_result = "Ok" /\ is_passing(summary)) =>
              (result.status = "success" /\ st = "Committed")
        /\ VerificationErrored =>
              (result.status = "success" /\ st = "Committed" /\ ~result.has_verification)
        /\ (VerificationFailed /\ rollback_flag) =>
              /\ result.status = "rolled_back"
              /\ st = "RolledBack"
              /\ PreExistingFilesIntact
              /\ \A k \in 1..Len(creates) : ~Exists(fs, creates[k].absolute_path)
        /\ (VerificationFailed /\ ~rollback_flag) =>
              (result.status = "verification_failed" /\ st = "Committed")

\* C5: when the call returns, a transaction that reached Applied is Committed
\* or RolledBack.
C5_NoTransactionLeftApplied == pc = "done" => st # "Applied"

\* C6: every absolute path validation accepts for an edit or a create lies
\* inside the project root (a request path that resolves outside it is rejected
\* and never becomes a validated entry).
C6_PathConfinement ==
    /\ \A k \in 1..Len(edits) : StartsWith(edits[k].absolute_path, project_root)
    /\ \A k \in 1..Len(creates) : StartsWith(creates[k].absolute_path, project_root)

\* C7: Transaction::new and stage, whether they succeed or fail, leave every
\* file and directory under the project root as it was.
C7_NoMutationBeforeApply ==
    (st \in {"None", "Pending"} \/ pc = "apply_new") =>
        \A l \in Locs : StartsWith(l, project_root) => fs[l] = pre[l]

\* C8: whenever restore_all fails, the caller receives a rollback error.
C8_RollbackErrorsNotSwallowed ==
    (pc = "done" /\ restore_result.kind = "Err") =>
        (result.is_error /\ result.error.kind = "RollbackError")

\* C9: when restore_all fails, the backup root still exists after the call
\* returns and the error returned names the backup root.
C9_BackupsSurviveFailedRollback ==
    (pc = "done" /\ restore_result.kind = "Err") =>
        /\ backupDir
        /\ result.error.kind = "RollbackError"
        /\ result.error.path = BackupRoot

\* C10: a batch whose verification met an undecodable tool output is committed
\* whatever rollback_on_failure says; a rollback happens only when
\* verification failed on decoded diagnostics and rollback was requested.
C10_ParserFailureNeverRollsBack ==
    pc = "done" =>
        /\ (verify /\ run_result = "Ok" /\ ParserFailed(summary)) => st = "Committed"
        /\ st = "RolledBack" =>
              (rollback_flag /\ ~is_passing(summary) /\ ~ParserFailed(summary))

\* A step of restore_all's first loop that deleted a created file, and a step of
\* its second loop that copied a backup back.
DeletedCreated == pc = "restore_created" /\ restore_result'.kind # "Err"
CopiedBack == pc = "restore_backups" /\ restore_result'.kind # "Err"

\* C11: during restore every recorded created file is deleted before any backup
\* is copied back; created files are deleted in reverse order of recording and
\* backups are copied back in reverse order of creation.
C11_RollbackOrder ==
    [][ /\ DeletedCreated =>
              /\ ~Exists(fs', backups.created_files[i])
              /\ \A j \in 1..Len(backups.created_files) :
                    j > i => ~Exists(fs, backups.created_files[j])
              /\ \A k \in 1..Len(backups.backups) :
                    fs'[backups.backups[k].original_path] = fs[backups.backups[k].original_path]
              /\ \/ pc' = "restore_created" /\ i' = i - 1 /\ i > 1
                 \/ pc' # "restore_created" /\ i = 1
        /\ CopiedBack =>
              /\ \A j \in 1..Len(backups.created_files) :
                    ~Exists(fs, backups.created_files[j])
              /\ fs' = [fs EXCEPT ![backups.backups[i].original_path] =
                                     backups.backups[i].content]
              /\ \A k \in 1..Len(backups.backups) :
                    k > i => fs[backups.backups[k].original_path] = backups.backups[k].content
              /\ \/ pc' = "restore_backups" /\ i' = i - 1 /\ i > 1
                 \/ pc' = "restore_return" /\ i = 1
        /\ (pc \notin {"restore_created", "restore_backups"} /\ pc' = "restore_created") =>
              i' = Len(backups.created_files)
        /\ (pc # "restore_backups" /\ pc' = "restore_backups") =>
              i' = Len(backups.backups)
        /\ pc = "restore_backups" => pc' # "restore_created"
      ]_vars

\* C11 witness: restore has deleted a created file and is about to copy a
\* backup back.
C11_Witness ==
    /\ pc = "restore_backups"
    /\ backups.created_files # <<>>
    /\ restore_result.kind = "none"

\* C12: in apply, when the first write of an edit is about to run (and at every
\* later write), every file named in edits has a backup that holds the content
\* the file had before the transaction.
C12_BackupPrecedesWrite ==
    pc = "apply_write" =>
        \A k \in 1..Len(edits) :
            \E j \in 1..Len(backups.backups) :
                /\ backups.backups[j].original_path = edits[k].absolute_path
                /\ backups.backups[j].content = pre[edits[k].absolute_path]

\* The typestate transitions the four consuming methods allow.
LifecycleSteps ==
    { <<"None", "Pending">>, <<"Pending", "Staged">>, <<"Staged", "Applied">>,
      <<"Applied", "Committed">>, <<"Applied", "RolledBack">> }

\* apply has completed every write: each edit has a backup and its file reads a
\* content staged for it, each create is recorded and reads its content, and
\* no write error is pending.
AllWritesCompleted(f, b, err) ==
    /\ err = NoError
    /\ Len(b.backups) = Len(edits)
    /\ Len(b.created_files) = Len(creates)
    /\ \A k \in 1..Len(edits) :
          \E j \in 1..Len(edits) :
              /\ edits[j].absolute_path = edits[k].absolute_path
              /\ f[edits[k].absolute_path] = edits[j].change.content
    /\ \A k \in 1..Len(creates) : f[creates[k].absolute_path] = creates[k].content

\* C13: the transaction's state changes only along Pending, Staged, Applied and
\* then Committed or RolledBack (so no state is entered twice and no method
\* runs twice or out of order); Applied is entered, and commit erases the
\* backup storage, only after apply completed every write successfully.
C13_LifecycleOrder ==
    [][ /\ st' # st => <<st, st'>> \in LifecycleSteps
        /\ (st' = "Applied" /\ st # "Applied") => AllWritesCompleted(fs', backups', apply_error')
        /\ (st' = "Committed" /\ st # "Committed") =>
              /\ AllWritesCompleted(fs, backups, apply_error)
              /\ backupDir /\ ~backupDir'
      ]_vars

\* C13 witness: a transaction with an edit and a create went all the way to
\* Committed.
C13_Witness ==
    /\ pc = "done"
    /\ st = "Committed"
    /\ edits # <<>>
    /\ creates # <<>>

RunnerOrder == <<"lint", "types", "tests">>

\* Position of a runner name in the cascade.
RunnerRank(r) == CHOOSE k \in 1..Len(RunnerOrder) : RunnerOrder[k] = r

\* C15: runners are invoked strictly in the order lint, types, tests; once the
\* lint step's status is fail neither the type checker nor the test runner is
\* invoked and both steps are recorded as skipped with a reason; once the types
\* step's status is fail the test runner is not invoked and tests are recorded
\* as skipped with a reason.
C15_VerificationCascade ==
    /\ \A a, b \in 1..Len(invoked) : a < b => RunnerRank(invoked[a]) < RunnerRank(invoked[b])
    /\ summary.lint.status = "fail" =>
          /\ \A a \in 1..Len(invoked) : invoked[a] = "lint"
          /\ summary.types = SkippedLint
          /\ summary.tests = SkippedLint
    /\ summary.types.status = "fail" =>
          /\ \A a \in 1..Len(invoked) : invoked[a] # "tests"
          /\ summary.tests = SkippedTypes

\* C15 witness: the linter passed, the type checker failed and the pipeline
\* returned with the test runner configured but never invoked.
C15_Witness ==
    /\ pc = "verified"
    /\ pipeline.test_runner
    /\ invoked = <<"lint", "types">>
    /\ summary.types.status = "fail"
    /\ summary.tests = SkippedTypes

\* None of the three steps of a summary has status fail.
NoStepFailed(s) ==
    \A step \in {s.lint, s.types, s.tests} : step.status # "fail"

\* C16: every summary the pipeline returns has top-level status pass if and
\* only if none of its three steps has status fail, and status fail together
\* with the hint string otherwise.
C16_SummaryStatus ==
    run_result = "Ok" =>
        /\ summary.status = "pass" <=> NoStepFailed(summary)
        /\ ~NoStepFailed(summary) =>
              (summary.status = "fail" /\ summary.suggestion = Suggestion)

\* C16 witness: the pipeline returned a summary whose only failing step is the
\* last one, tests.
C16_Witness ==
    /\ run_result = "Ok"
    /\ summary.lint.status = "pass"
    /\ summary.types.status = "pass"
    /\ summary.tests.status = "fail"
    /\ summary.status = "fail"

\* The entries of a request in validation order: the edits, then the creates.
Entries(inp) ==
    [k \in 1..(Len(inp.edits) + Len(inp.creates)) |->
        IF k <= Len(inp.edits)
        THEN [kind |-> "edit", op |-> inp.edits[k]]
        ELSE [kind |-> "create", op |-> inp.creates[k - Len(inp.edits)]]]

\* A request path with every backslash replaced by a forward slash.
SlashKey(file) == [k \in DOMAIN file |-> IF file[k] = "\\" THEN "/" ELSE file[k]]

\* Entry b repeats the key of an earlier entry.
RepeatsEarlierKey(inp, b) ==
    \E a \in 1..(b - 1) : SlashKey(Entries(inp)[a].op.file) = SlashKey(Entries(inp)[b].op.file)

HasDuplicateKey(inp) == \E b \in DOMAIN Entries(inp) : RepeatsEarlierKey(inp, b)

\* The checks validate_edit makes before the key check: exactly one of content
\* and operations, and confinement.  A create has the confinement check only.
PassesEarlyChecks(e) ==
    /\ e.kind = "edit" => ((e.op.content = None) # (e.op.operations = None))
    /\ resolve_within_root(project_root, e.op.file).ok

\* The check made after the key check: an edit's target exists, a create's
\* does not.
PassesTargetCheck(f, e) ==
    LET path == resolve_within_root(project_root, e.op.file).path IN
    IF e.kind = "edit" THEN Exists(f, path) ELSE ~Exists(f, path)

\* Validation gets as far as the key check of the first entry that repeats a
\* key: every entry before it passes all its checks and it passes the early
\* ones.
ReachesFirstDuplicate(f, inp, b) ==
    /\ RepeatsEarlierKey(inp, b)
    /\ \A a \in 1..(b - 1) :
          /\ ~RepeatsEarlierKey(inp, a)
          /\ PassesEarlyChecks(Entries(inp)[a])
          /\ PassesTargetCheck(f, Entries(inp)[a])
    /\ PassesEarlyChecks(Entries(inp)[b])

RejectedWith(kind) == ~validated.res.ok /\ validated.res.error.kind = kind

\* C17 as stated: a request is rejected with a duplicate-path error exactly when
\* two of its entries, edits and creates taken together, have the same
\* slash-normalised path.
C17_DuplicateDetection ==
    validated.done => (HasDuplicateKey(batch_input) <=> RejectedWith("DuplicatePath"))

\* C17 amended: a request with a repeated key is always rejected; the error is
\* DuplicatePath, naming the repeating entry, whenever validation reaches that
\* entry's key check (an earlier check that fails is reported instead); and no
\* request whose keys are all distinct is rejected as duplicate.
C17_DuplicateDetectionInOrder ==
    validated.done =>
        /\ HasDuplicateKey(batch_input) => ~validated.res.ok
        /\ RejectedWith("DuplicatePath") => HasDuplicateKey(batch_input)
        /\ \A b \in DOMAIN Entries(batch_input) :
              ReachesFirstDuplicate(fs, batch_input, b) =>
                  /\ RejectedWith("DuplicatePath")
                  /\ validated.res.error.path = Entries(batch_input)[b].op.file

\* C17 witness: a create that repeats the key of a valid edit was rejected as
\* a duplicate.
C17_Witness ==
    /\ validated.done
    /\ Len(batch_input.edits) = 1
    /\ Len(batch_input.creates) = 1
    /\ ReachesFirstDuplicate(fs, batch_input, 2)
    /\ RejectedWith("DuplicatePath")

\* A request path resolves to a location that begins with the project root.
ResolvesInsideRoot(file) ==
    StartsWith(normalize_path(Join(project_root, file)), project_root)

\* What makes a request with entries acceptable, entry by entry.
ExactlyOneChange(e) == (e.op.content = None) # (e.op.operations = None)

\* The conditions C18 lists for acceptance.
Acceptable(f, inp) ==
    /\ Len(inp.edits) + Len(inp.creates) >= 1
    /\ \A k \in DOMAIN Entries(inp) :
          LET e == Entries(inp)[k] IN
          /\ e.kind = "edit" => ExactlyOneChange(e)
          /\ ResolvesInsideRoot(e.op.file)
          /\ PassesTargetCheck(f, e)
    /\ ~HasDuplicateKey(inp)

\* The error kinds that match a violated condition of the request.
MatchingErrors(f, inp) ==
    LET es == { Entries(inp)[k] : k \in DOMAIN Entries(inp) } IN
    { kind \in { "EmptyTransaction", "AmbiguousEdit", "EmptyEdit", "FileNotFound",
                 "FileAlreadyExists", "PathTraversal", "DuplicatePath" } :
        \/ kind = "EmptyTransaction" /\ es = {}
        \/ kind = "AmbiguousEdit" /\
              \E e \in es : e.kind = "edit" /\ e.op.content # None /\ e.op.operations # None
        \/ kind = "EmptyEdit" /\
              \E e \in es : e.kind = "edit" /\ e.op.content = None /\ e.op.operations = None
        \/ kind = "FileNotFound" /\ \E e \in es : e.kind = "edit" /\ ~PassesTargetCheck(f, e)
        \/ kind = "FileAlreadyExists" /\
              \E e \in es : e.kind = "create" /\ ~PassesTargetCheck(f, e)
        \/ kind = "PathTraversal" /\ \E e \in es : ~ResolvesInsideRoot(e.op.file)
        \/ kind = "DuplicatePath" /\ HasDuplicateKey(inp) }

\* C18: validate_input accepts a request if and only if it has at least one
\* entry, every edit provides exactly one of content and operations and targets
\* an existing path, every create targets a non-existing path, every path is
\* confined to the project root and all keys are distinct; otherwise it
\* returns an error that matches a violated condition.
C18_ValidatorDecision ==
    validated.done =>
        /\ validated.res.ok <=> Acceptable(fs, batch_input)
        /\ ~validated.res.ok => validated.res.error.kind \in MatchingErrors(fs, batch_input)

\* stage returned an internal error (not an I/O error of the staging area).
StageRejected ==
    /\ pc = "done"
    /\ st = "Pending"
    /\ result.is_error
    /\ result.message = "Staging failed"
    /\ result.error.kind = "Internal"

\* C19: stage accepts an edit that carries an operation list: no transaction
\* holding such an edit is refused by stage itself (it is staged and can
\* proceed to apply).
C19_OperationEditsAreStaged ==
    (\E k \in 1..Len(edits) : edits[k].change.kind = "AstOperations") => ~StageRejected

\* Every edit has start <= end <= source_len.
AllInBounds(es, len) ==
    \A k \in DOMAIN es : es[k].start <= es[k].end /\ es[k].end <= len

PureInsertion(e) == e.start = e.end

\* The non-overlap rule on the ordered pair (a, b).
PairAllowed(a, b) ==
    \/ PureInsertion(a) /\ PureInsertion(b) /\ a.start = b.start
    \/ a.end <= b.start

\* C20: EditSet::new succeeds if and only if every edit has
\* start <= end <= source_len and for every pair of distinct edits A, B with
\* A.start <= B.start either both are pure insertions at the same offset or
\* A.end <= B.start.
C20_EditSetAcceptance ==
    edit_set.done =>
        (edit_set.res.ok <=>
            /\ AllInBounds(text_edits, source_len)
            /\ \A a, b \in DOMAIN text_edits :
                  (a # b /\ text_edits[a].start <= text_edits[b].start) =>
                      PairAllowed(text_edits[a], text_edits[b]))

\* a comes before b in (start, end) order.
PrecedesByRange(a, b) ==
    a.start < b.start \/ (a.start = b.start /\ a.end <= b.end)

\* Two edits that both replace at least one byte and share a byte.
ShareAByte(a, b) ==
    /\ ~PureInsertion(a)
    /\ ~PureInsertion(b)
    /\ a.start < b.end
    /\ b.start < a.end

\* C20 amended: EditSet::new succeeds if and only if every edit is in bounds
\* and every pair of distinct edits, taken in (start, end) order, is two pure
\* insertions at one offset or has A.end <= B.start; a failure is OutOfBounds
\* exactly when some edit is out of bounds and Overlapping otherwise; two
\* non-insertions that share a byte are never accepted.
C20_EditSetAcceptanceInRangeOrder ==
    edit_set.done =>
        /\ edit_set.res.ok <=>
              /\ AllInBounds(text_edits, source_len)
              /\ \A a, b \in DOMAIN text_edits :
                    (a # b /\ PrecedesByRange(text_edits[a], text_edits[b])) =>
                        PairAllowed(text_edits[a], text_edits[b])
        /\ ~edit_set.res.ok =>
              /\ edit_set.res.error.kind \in {"OutOfBounds", "Overlapping"}
              /\ edit_set.res.error.kind = "OutOfBounds" <=>
                    ~AllInBounds(text_edits, source_len)
        /\ (\E a, b \in DOMAIN text_edits :
                a # b /\ ShareAByte(text_edits[a], text_edits[b])) => ~edit_set.res.ok

\* C20 witness: three edits were accepted, among them a pure insertion at the
\* start offset of a replaced range.
C20_Witness ==
    /\ edit_set.done
    /\ edit_set.res.ok
    /\ Len(text_edits) = 3
    /\ \E a, b \in DOMAIN text_edits :
          /\ text_edits[a].start = text_edits[b].start
          /\ PureInsertion(text_edits[a])
          /\ ~PureInsertion(text_edits[b])

(***************************************************************************)
(* C21..C24: EditSet::apply                                                *)
(***************************************************************************)
\* len(replacement) - (end - start) of one edit
LengthDelta(e) == Len(e.replacement) - (e.end - e.start)

\* The sum of LengthDelta over the edits of es whose indices are in K.
RECURSIVE SumDelta(_, _)
SumDelta(es, K) ==
    IF K = {} THEN 0
    ELSE LET k == CHOOSE x \in K : TRUE IN LengthDelta(es[k]) + SumDelta(es, K \ {k})

\* apply returned a text (it did not panic inside replace_range).
ApplyReturned == applied.done /\ ~applied.res.panicked

Untouched(es, x) == \A k \in DOMAIN es : ~(es[k].start <= x /\ x < es[k].end)

\* The edits that precede the byte at index x: those that end at or before it
\* (a pure insertion at x puts its text in front of the byte).
Preceding(es, x) == { k \in DOMAIN es : es[k].end <= x }

\* Where the byte at index x of the source is to be found in the output.
ShiftedIndex(es, x) == x + SumDelta(es, Preceding(es, x))

CoLocatedInsertions(es, a, b) ==
    /\ a # b
    /\ es[a].start = es[a].end
    /\ es[b].start = es[b].end
    /\ es[a].start = es[b].start
    /\ es[a].replacement # <<>>
    /\ es[b].replacement # <<>>

\* The index in the output of the first byte the edit labelled l wrote
\* (the bytes of a replacement are the letter of its label).
LandsAt(out, l) ==
    CHOOSE x \in 1..Len(out) :
        /\ out[x] = ReplacementBytes[l]
        /\ \A y \in 1..(x - 1) : out[y] # ReplacementBytes[l]

\* C23: co-located insertions as specified and tested.  Of two pure
\* insertions at one offset the one with the lower priority value lands later
\* in the output than the one with the higher priority value (X with
\* priority 0 and Y with priority 1 at offset 1 of "ab" give "aYXb").
C23_LowerPriorityLandsLater ==
    ApplyReturned =>
        LET es == edit_set.res.edits IN
        \A a, b \in DOMAIN es :
            (CoLocatedInsertions(es, a, b) /\ es[a].priority < es[b].priority)
                => LandsAt(applied.res.text, es[a].label)
                       > LandsAt(applied.res.text, es[b].label)

ExecSucceeded == outcome.done /\ outcome.res.ok

\* C25: successful Surgeon results are parse-clean.  Whenever
\* execute_operations returns a success, re-parsing the returned content gives
\* a tree without ERROR or MISSING node, for every operation list (the empty
\* one and those that compile to no edits too) and for sources parsed
\* best-effort.
C25_SuccessIsParseClean == ExecSucceeded => ~has_error(outcome.res.content)

\* The rename_symbol operations of the list whose from equals to.
NoOpRenames == { k \in DOMAIN operations :
                    operations[k].op = "rename_symbol"
                        /\ operations[k].from = operations[k].to }

\* C28 as stated: for every name, a rename_symbol with from == to compiles to
\* an empty edit list and never to an error; a list made of such renames only
\* is answered with the source unchanged.
C28_RenameNoOp ==
    outcome.done =>
        /\ \A k \in NoOpRenames :
              Compile(operations[k], source) = [ok |-> TRUE, edits |-> <<>>]
        /\ (operations # <<>> /\ NoOpRenames = DOMAIN operations)
              => outcome.res = OpOk(source, <<>>)

\* C28, amended: the same for every non-empty name; with the empty name the
\* rename is answered with InvalidParams.
C28_RenameNoOpOfNonEmptyName ==
    outcome.done =>
        /\ \A k \in NoOpRenames :
              Compile(operations[k], source)
                  = IF operations[k].from = <<>> THEN OpErr("InvalidParams")
                    ELSE [ok |-> TRUE, edits |-> <<>>]
        /\ (/\ operations # <<>>
            /\ NoOpRenames = DOMAIN operations
            /\ \A k \in NoOpRenames : operations[k].from # <<>>)
              => outcome.res = OpOk(source, <<>>)

\* C28 witness: the driver has answered a list of one rename of a name that
\* does not occur in the source to itself.
C28_Witness ==
    /\ outcome.done
    /\ Len(operations) = 1
    /\ NoOpRenames = {1}
    /\ operations[1].from # <<>>
    /\ \A k \in DOMAIN source : <<source[k]>> # operations[1].from
    /\ source # <<>>
    /\ outcome.res.ok

\* The first operation of the list that does not compile against the
\* original source, or 0.
FirstFailing ==
    LET failing == { k \in DOMAIN operations : ~Compile(operations[k], source).ok } IN
    IF failing = {} THEN 0 ELSE CHOOSE k \in failing : \A j \in failing : k <= j

\* The edits of all operations, each compiled against the original source.
RECURSIVE EditsOnOriginal(_)
EditsOnOriginal(k) ==
    IF k = 0 THEN <<>>
    ELSE EditsOnOriginal(k - 1) \o Compile(operations[k], source).edits

\* C30: the driver is all-or-nothing over its operation list.  Every
\* operation is compiled against the original source; if one fails to compile
\* the driver returns that error, if the concatenated edits conflict it
\* returns the conflict, in both cases without content; otherwise a returned
\* content is the original source with the edits of all operations applied.
C30_AllOrNothing ==
    outcome.done =>
        IF FirstFailing # 0
        THEN /\ outcome.res = Compile(operations[FirstFailing], source)
             /\ "content" \notin DOMAIN outcome.res
        ELSE LET all == EditsOnOriginal(Len(operations))
                 set == EditSet_new(all, Len(source))
             IN IF all = <<>> THEN outcome.res = OpOk(source, <<>>)
                ELSE IF ~set.ok
                THEN /\ ~outcome.res.ok
                     /\ outcome.res.error.kind = "EditConflict"
                     /\ "content" \notin DOMAIN outcome.res
                ELSE outcome.res.ok
                        => outcome.res.content = EditSet_apply(set.edits, source).text

\* C30 witness: two renames that swap the two identifiers of the source were
\* both applied to the original text.
C30_Witness ==
    /\ ExecSucceeded
    /\ source = <<"f", "g">>
    /\ Len(operations) = 2
    /\ operations[1] = [op |-> "rename_symbol", from |-> <<"f">>, to |-> <<"g">>]
    /\ operations[2] = [op |-> "rename_symbol", from |-> <<"g">>, to |-> <<"f">>]
    /\ outcome.res.content = <<"g", "f">>

(***************************************************************************)
(* C26, C27: the surgeon entry                                             *)
(***************************************************************************)
\* The call has returned its SurgeonResult.
SurgeonReturned == surgeon_result.started /\ surgeon_result.returned /\ ~surgeon_result.is_error

\* The files of the request that could not be processed: those that did not
\* get into files_modified.
FilesNotProcessed ==
    { f \in GroupedFiles(params) :
        \A k \in DOMAIN surgeon_result.files_modified : surgeon_result.files_modified[k] # f }

\* C26: surgeon multi-file status.  When the call returns, the top-level
\* status is error if at least one file could not be processed (unreadable,
\* unsupported file type, invalid operation, operation error, write failure),
\* and every such file has exactly one entry in the warnings list.
C26_StatusErrorOnAnyFailure ==
    SurgeonReturned =>
        /\ FilesNotProcessed # {} => surgeon_result.status = "error"
        /\ \A f \in FilesNotProcessed :
              Cardinality({ k \in DOMAIN surgeon_result.warnings :
                               surgeon_result.warnings[k].file = f }) = 1

\* C27: a dry run writes nothing.  With dry_run set the surgeon entry leaves
\* every file on disk as it was before the call, its result carries no file
\* content, and a content a WASM entry point returns for a file is that file's
\* original content.
C27_DryRunWritesNothing ==
    /\ (params.received /\ params.dry_run) =>
          /\ disk = InitDisk
          /\ "content" \notin DOMAIN surgeon_result
    /\ (wasm.done /\ wasm.request.dry_run) =>
          IF wasm.entry = "process_file"
          THEN ("content" \in DOMAIN wasm.response /\ wasm.response.content.some)
                   => wasm.response.content.value = wasm.request.content
          ELSE \A k \in DOMAIN wasm.response.results :
                  wasm.response.results[k].content
                      = wasm.request.files[wasm.response.results[k].path].content

\* C27 witness: a dry run has returned after operations that change a.ts
\* succeeded.
C27_Witness ==
    /\ SurgeonReturned
    /\ params.dry_run
    /\ surgeon_result.files_modified = << <<"a", ".", "t", "s">> >>
    /\ surgeon_result.changes[1].changes # <<>>
    /\ disk = InitDisk

(***************************************************************************)
(* C29: ancestor cleanup                                                   *)
(***************************************************************************)
\* The directories above the created path, the nearest first.
AncestorsOf(path) == { SubSeq(path, 1, n) : n \in 1..(Len(path) - 1) }

\* Before the round, nothing but the created path and the directories that
\* lead to it existed below dir.
HeldOnlyTheCreation(dir, path) ==
    \A l \in DOMAIN pre :
        (StartsWith(l, dir) /\ l # dir /\ pre[l] # Absent)
            => (l = path \/ l \in AncestorsOf(path))

Targets(v) ==
    [k \in 1..(Len(v.edits) + Len(v.creates)) |->
        IF k <= Len(v.edits) THEN v.edits[k].absolute_path
        ELSE v.creates[k - Len(v.edits)].absolute_path]

\* C32: in every request that validation accepts, the absolute paths of all
\* edits and creates are pairwise distinct.
C32_DistinctTargets ==
    (validated.done /\ validated.res.ok) =>
        \A a, b \in DOMAIN Targets(validated.res) :
            a # b => Targets(validated.res)[a] # Targets(validated.res)[b]

(***************************************************************************)
(* C33: rollback and pre-existing directories                              *)
(***************************************************************************)
\* C33: after a rollback every directory that existed before the transaction,
\* an empty one included, still exists.
C33_RollbackKeepsDirectories ==
    st = "RolledBack" =>
        \A l \in DOMAIN pre : pre[l] = Dir => fs[l] = Dir

(***************************************************************************)
(* C31: interleaved transactions                                           *)
(***************************************************************************)
\* Call u has committed: it answered success or verification_failed.
TxnCommitted(u) ==
    calls.txn[u].pc = "done" /\ calls.txn[u].status \in {"success", "verification_failed"}

\* Call t has answered rolled_back.
TxnRolledBack(t) == calls.txn[t].pc = "done" /\ calls.txn[t].status = "rolled_back"

\* A file call u edited does not hold the content u committed, although the
\* only other call has rolled back.
LostUpdate(t, u) ==
    /\ t # u
    /\ TxnRolledBack(t)
    /\ TxnCommitted(u)
    /\ \E k \in DOMAIN calls.txn[u].edits :
          fs[calls.txn[u].edits[k].absolute_path] # calls.txn[u].edits[k].change.content

RecordedCreations(t) ==
    { calls.txn[t].backups.created_files[k] :
        k \in DOMAIN calls.txn[t].backups.created_files }

\* The path the create loop of call t is at.
CreateTarget(t) == calls.txn[t].creates[calls.txn[t].i].absolute_path

BackupFailed ==
    /\ ApplyReturnedError
    /\ result.error.kind = "BackupError"
    /\ result.error.path # project_root

\* C35: if backing up any file fails, apply returns that error with no
\* working-tree file modified or created.
C35_FailedBackupLeavesTreeUntouched ==
    BackupFailed => fs = pre

(***************************************************************************)
(* C36: restore stops at its first failure                                 *)
(***************************************************************************)
\* restore_all has returned an error.
RestoreFailed == pc \in {"restore_return", "done"} /\ restore_result.kind = "Err"

\* The failing step was the deletion of a created file.
FailedInCreatedLoop ==
    \E k \in DOMAIN backups.created_files :
        backups.created_files[k] = restore_result.error.path

\* The backups that come earlier in insertion order than the failing step:
\* all of them when a deletion failed, else those before the failing copy.
EarlierBackups ==
    IF FailedInCreatedLoop THEN DOMAIN backups.backups ELSE 1..(i - 1)

\* What the transaction writes to a path: the staged content of the last edit
\* that targets it.
NewContent(path) ==
    LET targeting == { k \in DOMAIN edits : edits[k].absolute_path = path }
        last == CHOOSE k \in targeting : \A k2 \in targeting : k2 <= k
    IN read_staged(staging, edits[last].relative_path).content

\* What apply's second loop may have written to a path by the time it fails:
\* the staged content of any edit that targets it.
WrittenContents(path) ==
    { read_staged(staging, edits[k].relative_path).content :
        k \in { k2 \in DOMAIN edits : edits[k2].absolute_path = path } }

\* A backup of the same file, inserted later, was copied back before the
\* failing step.
RestoredLater(k) ==
    /\ ~FailedInCreatedLoop
    /\ \E k2 \in (i + 1)..Len(backups.backups) :
          backups.backups[k2].original_path = backups.backups[k].original_path

\* C36 as stated: when a step of restore_all fails, the file of every backup
\* that comes earlier in insertion order than the failing step holds the
\* transaction's new content.
C36_RestoreStopsAtFirstFailure ==
    RestoreFailed =>
        \A k \in EarlierBackups :
            fs[backups.backups[k].original_path] =
                NewContent(backups.backups[k].original_path)

\* C36 amended: restore_all returns at the failing step (the loop index still
\* stands at it), and the file of every earlier backup that no later backup
\* has restored holds the content it had when restore_all was called: the
\* transaction's new content after a rollback; in apply's failure path what
\* apply had written there, or the backed-up content if no write had been made.
C36_RestoreStopsWithFilesAsTheyWere ==
    RestoreFailed =>
        /\ IF FailedInCreatedLoop
           THEN /\ i \in DOMAIN backups.created_files
                /\ backups.created_files[i] = restore_result.error.path
           ELSE /\ i \in DOMAIN backups.backups
                /\ backups.backups[i].original_path = restore_result.error.path
        /\ \A k \in EarlierBackups :
              ~RestoredLater(k) =>
                  LET path == backups.backups[k].original_path IN
                  IF caller = "rollback"
                  THEN fs[path] = NewContent(path)
                  ELSE fs[path] \in WrittenContents(path) \cup {backups.backups[k].content}

\* C36 witness: a rollback of two edits failed at the copy of the second
\* backup; the first backup was not copied back and its file holds the new
\* content, which differs from the backed-up one.
C36_Witness ==
    /\ RestoreFailed
    /\ caller = "rollback"
    /\ ~FailedInCreatedLoop
    /\ i = 2
    /\ backups.backups[1].original_path # backups.backups[2].original_path
    /\ fs[backups.backups[1].original_path] = NewContent(backups.backups[1].original_path)
    /\ fs[backups.backups[1].original_path] # backups.backups[1].content

(***************************************************************************)
(* C37: a multi-file surgeon request is not atomic                         *)
(***************************************************************************)
\* The k-th file listed in files_modified holds, on disk, the result of its
\* own operations on its own content before the call.
ListedFileWritten(k) ==
    LET file == surgeon_result.files_modified[k]
        before == InitDisk[SurgeonLoc(file)]
        op_result == execute_operations(before.content, ops_by_file(params, file))
    IN /\ before.kind = "file"
       /\ op_result.ok
       /\ disk[SurgeonLoc(file)] = RegularFile(op_result.content)

\* A step of the call keeps the files already listed in files_modified and
\* what the disk holds for them.
KeepsListedFiles ==
    surgeon_result.started =>
        \A k \in DOMAIN surgeon_result.files_modified :
            /\ k \in DOMAIN surgeon_result'.files_modified
            /\ surgeon_result'.files_modified[k] = surgeon_result.files_modified[k]
            /\ disk'[SurgeonLoc(surgeon_result.files_modified[k])] =
                   disk[SurgeonLoc(surgeon_result.files_modified[k])]

\* C37: in a call that writes, every file listed in files_modified holds the
\* result of its own operations whatever the status and the other files'
\* outcomes are, and no later step of the call, a failure of another file
\* included, removes it from the list or changes it on disk.
C37_SurgeonNotAtomic ==
    /\ [](surgeon_result.started /\ ~params.dry_run =>
            \A k \in DOMAIN surgeon_result.files_modified : ListedFileWritten(k))
    /\ [][KeepsListedFiles]_vars

\* C37 witness: a call without dry_run has returned with status error and a
\* failure warning for one file, while another file is listed as modified and
\* holds new content on disk.
C37_Witness ==
    /\ surgeon_result.started
    /\ surgeon_result.returned
    /\ ~params.dry_run
    /\ surgeon_result.status = "error"
    /\ Len(surgeon_result.files_modified) = 1
    /\ \E w \in DOMAIN surgeon_result.warnings :
          /\ surgeon_result.warnings[w].file # surgeon_result.files_modified[1]
          /\ surgeon_result.warnings[w].what # "Unsupported file type, skipping"
    /\ ListedFileWritten(1)
    /\ disk[SurgeonLoc(surgeon_result.files_modified[1])] #
           InitDisk[SurgeonLoc(surgeon_result.files_modified[1])]

(***************************************************************************)
(* C38: verification without tools                                         *)
(***************************************************************************)
\* No linter, no type checker and no test runner was detected.
NoTools == ~pipeline.linter /\ ~pipeline.type_checker /\ ~pipeline.test_runner

\* The summary of a run in which every step kept StepResult::default().
VacuousSummary == [DefaultSummary EXCEPT !.status = "pass"]

\* C38: with no tool configured no runner is ever invoked; the pipeline returns
\* Ok with all three steps skipped and top-level status pass; the transaction
\* is never rolled back, and an applied batch with verify on ends committed
\* with status success and that summary.
C38_VacuousVerification ==
    NoTools =>
        /\ invoked = <<>>
        /\ pc = "verified" => (run_result = "Ok" /\ summary = VacuousSummary)
        /\ verify => (st # "RolledBack" /\ caller # "rollback")
        /\ (verify /\ pc = "done" /\ ~result.is_error) =>
              /\ st = "Committed"
              /\ result.status = "success"
              /\ result.has_verification
              /\ result.verification = VacuousSummary
              /\ ~result.rolled_back

\* C38 witness: with no tool a batch of one edit with verify on has been
\* committed with status success and the all-skipped passing summary, its file
\* holding the new content.
C38_Witness ==
    /\ NoTools
    /\ verify
    /\ pc = "done"
    /\ st = "Committed"
    /\ invoked = <<>>
    /\ result.status = "success"
    /\ result.verification.status = "pass"
    /\ result.verification.lint.status = "skipped"
    /\ result.verification.types.status = "skipped"
    /\ result.verification.tests.status = "skipped"
    /\ Len(edits) = 1
    /\ fs[edits[1].absolute_path] # pre[edits[1].absolute_path]

(***************************************************************************)
(* C39: confinement of the surgeon entry                                   *)
(***************************************************************************)
\* The 'file' values whose round of the loop has run: each was handed to
\* std::fs::read_to_string.
FilesRead ==
    IF surgeon_result.started /\ ~surgeon_result.is_error
    THEN GroupedFiles(params) \ pending
    ELSE {}

\* The locations whose content the call has changed.
LocsWritten == { l \in DOMAIN disk : disk[l] # InitDisk[l] }

\* C39: every file the surgeon entry has read or written lies inside the
\* project root.
C39_SurgeonConfinement ==
    /\ \A file \in FilesRead : StartsWith(SurgeonLoc(file), project_root)
    /\ \A l \in LocsWritten : StartsWith(l, project_root)

=============================================================================
